---- MODULE Spec2Model ----
(***************************************************************************)
(* Burkina Tourisme Chatbot: the retrieval / answer pipeline of            *)
(* src/backend/rag_system.py, the corpus loader of                         *)
(* src/backend/data_loader.py and the HTTP handlers of src/backend/main.py.*)
(*                                                                         *)
(* Text is a sequence of code points (0..255, Latin-1), so that lower(),   *)
(* strip(), substring tests, regular expressions and truncation are        *)
(* computed on characters as Python computes them.  Distances and          *)
(* similarities are in hundredths (0.3 is 30).                             *)
(***************************************************************************)
EXTENDS Integers, Sequences, FiniteSets, TLC

(***************************************************************************)
(* Bounds of the model.                                                    *)
(***************************************************************************)
\* initialize_corpus is called at most MaxInits times in a behaviour
MaxInits == 2
\* explicit top_k values passed to retrieve_documents range over 0..MaxTopK
MaxTopK == 3
\* max_results of a direct call of find_relevant_snippets ranges over 0..MaxResults
MaxResults == 3
\* the encoder's geometry is one of the profiles 0..MaxProfile
MaxProfile == 2

\* documents a DataLoader holds in the direct calls of its operations
MaxDocuments == 12
\* requests in flight on the event loop at once, finished ones included
MaxTasks == 2

\* documents fetched from the web that a DataLoader holds in the direct
\* calls of its operations
MaxFetched == 1

(***************************************************************************)
(* Program constants.                                                      *)
(***************************************************************************)
\* RAG_CONFIG["top_k"]
TopKDefault == 5
\* RAG_CONFIG["similarity_threshold"] = 0.3, in hundredths
SimilarityThreshold == 30
\* similarity = 1 - distance, in hundredths
One == 100
\* context[:200] of the template answer
ExcerptLen == 200
\* len(cleaned_text) < 50 rejects a document
MinDocLen == 50
\* \w{3,}: the shortest query word of the keyword search
MinWordLen == 3
\* ChatRequest.top_k default, and the "or 5" of the keyword fallback
FallbackMaxResults == 5

\* an optional integer is None or Some(k)
None == <<>>

Some(k) == <<k>>

(***************************************************************************)
(* Characters and strings.                                                 *)
(***************************************************************************)
\* str.isspace(), and \s of a str pattern, on Latin-1
IsSpace(c) == c \in {9, 10, 11, 12, 13, 28, 29, 30, 31, 32, 133, 160}

\* \w of a str pattern on Latin-1: alphanumerics and the underscore
IsWord(c) ==
    \/ c \in 48..57 \/ c \in 65..90 \/ c = 95 \/ c \in 97..122
    \/ c \in {170, 178, 179, 181, 185, 186, 188, 189, 190}
    \/ c \in 192..214 \/ c \in 216..246 \/ c \in 248..255

\* str.lower() of one character (Latin-1)
LowerChar(c) ==
    IF c \in 65..90 \/ c \in 192..214 \/ c \in 216..222 THEN c + 32 ELSE c

\* str.lower()
Lower(s) == [i \in 1..Len(s) |-> LowerChar(s[i])]

RECURSIVE LStrip(_)
LStrip(s) == IF s # <<>> /\ IsSpace(Head(s)) THEN LStrip(Tail(s)) ELSE s

RECURSIVE RStrip(_)
RStrip(s) ==
    IF s # <<>> /\ IsSpace(s[Len(s)]) THEN RStrip(SubSeq(s, 1, Len(s) - 1)) ELSE s

\* str.strip()
Strip(s) == RStrip(LStrip(s))

\* k in s (substring test)
Contains(s, k) ==
    \E i \in 0..(Len(s) - Len(k)) : SubSeq(s, i + 1, i + Len(k)) = k

\* s[:n]
Take(s, n) == SubSeq(s, 1, IF n < Len(s) THEN n ELSE Len(s))

\* first index >= i of s at which old occurs, 0 when there is none
IndexOf(s, old, i) ==
    LET hits == {k \in i..(Len(s) - Len(old) + 1) :
                   SubSeq(s, k, k + Len(old) - 1) = old}
    IN IF hits = {} THEN 0 ELSE CHOOSE k \in hits : \A m \in hits : k <= m

\* s.replace(old, new) for a non-empty old: every non-overlapping
\* occurrence, left to right
RECURSIVE Replace(_, _, _)
Replace(s, old, new) ==
    LET i == IndexOf(s, old, 1) IN
    IF i = 0 THEN s
    ELSE SubSeq(s, 1, i - 1) \o new
         \o Replace(SubSeq(s, i + Len(old), Len(s)), old, new)

\* the decimal digits of n >= 0, as str(n) writes them
RECURSIVE ToDecimal(_)
ToDecimal(n) ==
    IF n < 10 THEN <<48 + n>> ELSE ToDecimal(n \div 10) \o <<48 + (n % 10)>>

\* "sep".join(parts)
RECURSIVE Join(_, _)
Join(parts, sep) ==
    IF parts = <<>> THEN <<>>
    ELSE IF Len(parts) = 1 THEN parts[1]
    ELSE parts[1] \o sep \o Join(Tail(parts), sep)

\* last index of the run of word characters that starts at i
RECURSIVE RunEnd(_, _)
RunEnd(s, i) ==
    IF i < Len(s) /\ IsWord(s[i + 1]) THEN RunEnd(s, i + 1) ELSE i

\* [w.lower() for w in re.findall(r"\w{3,}", query)], scanning from i
RECURSIVE QueryWords(_, _)
QueryWords(s, i) ==
    IF i > Len(s) THEN <<>>
    ELSE IF ~IsWord(s[i]) THEN QueryWords(s, i + 1)
    ELSE LET j == RunEnd(s, i) IN
         (IF j - i + 1 >= MinWordLen THEN <<Lower(SubSeq(s, i, j))>> ELSE <<>>)
         \o QueryWords(s, j + 1)

(***************************************************************************)
(* DataLoader.clean_text (data_loader.py)                                  *)
(***************************************************************************)
\* re.sub(r'\s+', ' ', text): every run of whitespace becomes one space
CollapseSpaces(s) ==
    LET marked == [i \in 1..Len(s) |->
                     IF ~IsSpace(s[i]) THEN s[i]
                     ELSE IF i > 1 /\ IsSpace(s[i - 1]) THEN -1 ELSE 32]
    IN SelectSeq(marked, LAMBDA c : c # -1)

\* re.sub(r'[\x00-\x1f\x7f-\x9f]', '', text)
DropControls(s) == SelectSeq(s, LAMBDA c : ~(c \in 0..31 \/ c \in 127..159))

\* re.sub(r'<[^>]+>', '', text), scanning from i: a '<', at least one
\* character other than '>', then the first '>'
RECURSIVE DropTags(_, _)
DropTags(s, i) ==
    IF i > Len(s) THEN <<>>
    ELSE LET lt == IndexOf(s, <<60>>, i) IN
         IF lt = 0 THEN SubSeq(s, i, Len(s))
         ELSE LET gt == IndexOf(s, <<62>>, lt + 1) IN
              IF gt = 0 THEN SubSeq(s, i, Len(s))
              ELSE IF gt = lt + 1 THEN SubSeq(s, i, lt) \o DropTags(s, lt + 1)
              ELSE SubSeq(s, i, lt - 1) \o DropTags(s, gt + 1)

clean_text(text) == Strip(DropTags(DropControls(CollapseSpaces(text)), 1))

(***************************************************************************)
(* startup_event and find_relevant_snippets (main.py)                      *)
(***************************************************************************)
\* the line boundaries of str.splitlines() on Latin-1
IsLineBreak(c) == c \in {10, 11, 12, 13, 28, 29, 30, 133}

\* first index >= i of a line boundary of s, 0 when there is none
FirstBreak(s, i) ==
    LET hits == {k \in i..Len(s) : IsLineBreak(s[k])}
    IN IF hits = {} THEN 0 ELSE CHOOSE k \in hits : \A m \in hits : k <= m

\* text.splitlines()
RECURSIVE SplitLines(_)
SplitLines(s) ==
    IF s = <<>> THEN <<>>
    ELSE LET brk == FirstBreak(s, 1) IN
         IF brk = 0 THEN <<s>>
         ELSE LET next == IF s[brk] = 13 /\ brk < Len(s) /\ s[brk + 1] = 10
                          THEN brk + 2 ELSE brk + 1
              IN <<SubSeq(s, 1, brk - 1)>> \o SplitLines(SubSeq(s, next, Len(s)))

\* [line.strip() for line in text.splitlines() if line.strip()]
ParseSources(text) ==
    LET lines == SplitLines(text)
        stripped == [i \in 1..Len(lines) |-> Strip(lines[i])]
    IN SelectSeq(stripped, LAMBDA l : l # <<>>)

\* any(w in lw for w in words), lw = line.lower()
LineMatches(line, words) ==
    \E n \in 1..Len(words) : Contains(Lower(line), words[n])

\* the loop of find_relevant_snippets from line i on: a matching line is
\* appended, and the length test that ends the loop comes after the append
RECURSIVE ScanSources(_, _, _, _, _)
ScanSources(words, sources, i, results, max_results) ==
    IF i > Len(sources) THEN results
    ELSE IF LineMatches(sources[i], words)
         THEN LET appended == Append(results, sources[i]) IN
              IF Len(appended) >= max_results THEN appended
              ELSE ScanSources(words, sources, i + 1, appended, max_results)
         ELSE ScanSources(words, sources, i + 1, results, max_results)

find_relevant_snippets(query, sources, max_results) ==
    ScanSources(QueryWords(query, 1), sources, 1, <<>>, max_results)

(***************************************************************************)
(* Answer generation (rag_system.py)                                       *)
(***************************************************************************)
\* KeyBonjour is the text "bonjour" (7 characters, as code points)
KeyBonjour ==
    <<98, 111, 110, 106, 111, 117, 114>>
\* KeySalut is the text "salut" (5 characters, as code points)
KeySalut ==
    <<115, 97, 108, 117, 116>>
\* KeyMerci is the text "merci" (5 characters, as code points)
KeyMerci ==
    <<109, 101, 114, 99, 105>>
\* KeyAuRevoir is the text "au revoir" (9 characters, as code points)
KeyAuRevoir ==
    <<97, 117, 32, 114, 101, 118, 111, 105, 114>>
\* RespBonjour is the text "Bonjour! Je suis votre assistant touristique pour le Burkina Faso. ..." (94 characters, as code points)
RespBonjour ==
    <<66, 111, 110, 106, 111, 117, 114, 33, 32, 74, 101, 32, 115, 117, 105, 115, 32, 118, 111, 116, 114, 101, 32, 97, 115, 115, 105, 115, 116, 97, 110, 116, 32, 116, 111, 117, 114, 105, 115, 116, 105, 113, 117, 101, 32, 112, 111, 117, 114, 32, 108, 101, 32, 66, 117, 114, 107, 105, 110, 97, 32, 70, 97, 115, 111, 46, 32, 67, 111, 109, 109, 101, 110, 116, 32, 112, 117, 105, 115, 45, 106, 101, 32, 118, 111, 117, 115, 32, 97, 105, 100, 101, 114, 63>>
\* RespSalut is the text "Salut! Bienvenue. Je suis ici pour répondre à vos questions sur le ..." (92 characters, as code points)
RespSalut ==
    <<83, 97, 108, 117, 116, 33, 32, 66, 105, 101, 110, 118, 101, 110, 117, 101, 46, 32, 74, 101, 32, 115, 117, 105, 115, 32, 105, 99, 105, 32, 112, 111, 117, 114, 32, 114, 233, 112, 111, 110, 100, 114, 101, 32, 224, 32, 118, 111, 115, 32, 113, 117, 101, 115, 116, 105, 111, 110, 115, 32, 115, 117, 114, 32, 108, 101, 32, 116, 111, 117, 114, 105, 115, 109, 101, 32, 97, 117, 32, 66, 117, 114, 107, 105, 110, 97, 32, 70, 97, 115, 111, 46>>
\* RespMerci is the text "De rien! N'hésitez pas à me poser d'autres questions." (53 characters, as code points)
RespMerci ==
    <<68, 101, 32, 114, 105, 101, 110, 33, 32, 78, 39, 104, 233, 115, 105, 116, 101, 122, 32, 112, 97, 115, 32, 224, 32, 109, 101, 32, 112, 111, 115, 101, 114, 32, 100, 39, 97, 117, 116, 114, 101, 115, 32, 113, 117, 101, 115, 116, 105, 111, 110, 115, 46>>
\* RespAuRevoir is the text "Au revoir! Bon voyage au Burkina Faso!" (38 characters, as code points)
RespAuRevoir ==
    <<65, 117, 32, 114, 101, 118, 111, 105, 114, 33, 32, 66, 111, 110, 32, 118, 111, 121, 97, 103, 101, 32, 97, 117, 32, 66, 117, 114, 107, 105, 110, 97, 32, 70, 97, 115, 111, 33>>
\* NoInfoResponse is the text "Je ne dispose pas d'informations spécifiques sur ce sujet. Pouvez-v..." (127 characters, as code points)
NoInfoResponse ==
    <<74, 101, 32, 110, 101, 32, 100, 105, 115, 112, 111, 115, 101, 32, 112, 97, 115, 32, 100, 39, 105, 110, 102, 111, 114, 109, 97, 116, 105, 111, 110, 115, 32, 115, 112, 233, 99, 105, 102, 105, 113, 117, 101, 115, 32, 115, 117, 114, 32, 99, 101, 32, 115, 117, 106, 101, 116, 46, 32, 80, 111, 117, 118, 101, 122, 45, 118, 111, 117, 115, 32, 112, 111, 115, 101, 114, 32, 117, 110, 101, 32, 113, 117, 101, 115, 116, 105, 111, 110, 32, 114, 101, 108, 97, 116, 105, 118, 101, 32, 97, 117, 32, 116, 111, 117, 114, 105, 115, 109, 101, 32, 97, 117, 32, 66, 117, 114, 107, 105, 110, 97, 32, 70, 97, 115, 111, 63>>
\* TemplateLead is the text "Basé sur les informations disponibles: " (39 characters, as code points)
TemplateLead ==
    <<66, 97, 115, 233, 32, 115, 117, 114, 32, 108, 101, 115, 32, 105, 110, 102, 111, 114, 109, 97, 116, 105, 111, 110, 115, 32, 100, 105, 115, 112, 111, 110, 105, 98, 108, 101, 115, 58, 32>>
\* Ellipsis is the text "..." (3 characters, as code points)
Ellipsis ==
    <<46, 46, 46>>
\* PromptHead is the text "Contexte:\n" (10 characters, as code points)
PromptHead ==
    <<67, 111, 110, 116, 101, 120, 116, 101, 58, 10>>
\* PromptQuestion is the text "\n\nQuestion: " (12 characters, as code points)
PromptQuestion ==
    <<10, 10, 81, 117, 101, 115, 116, 105, 111, 110, 58, 32>>
\* PromptTail is the text "\n\nR\xe9ponse bas\xe9e sur le contexte:" (32 characters, as code points)
PromptTail ==
    <<10, 10, 82, 233, 112, 111, 110, 115, 101, 32, 98, 97, 115, 233, 101, 32, 115, 117, 114, 32, 108, 101, 32, 99, 111, 110, 116, 101, 120, 116, 101, 58>>
\* DocumentLabel is the text "Document " (9 characters, as code points)
DocumentLabel ==
    <<68, 111, 99, 117, 109, 101, 110, 116, 32>>
\* ColonNewline is the text ":\n" (2 characters, as code points)
ColonNewline ==
    <<58, 10>>
\* BlankLine is the text "\n\n" (2 characters, as code points)
BlankLine ==
    <<10, 10>>
\* SourcePlaceholder is the text "Source" (6 characters, as code points)
SourcePlaceholder ==
    <<83, 111, 117, 114, 99, 101>>

\* general_responses, in the order of the dict
general_responses ==
    << <<KeyBonjour, RespBonjour>>, <<KeySalut, RespSalut>>,
       <<KeyMerci, RespMerci>>, <<KeyAuRevoir, RespAuRevoir>> >>

\* the first response whose key occurs in query_lower, from entry n on
RECURSIVE FirstTrigger(_, _)
FirstTrigger(query_lower, n) ==
    IF n > Len(general_responses) THEN NoInfoResponse
    ELSE IF Contains(query_lower, general_responses[n][1])
         THEN general_responses[n][2]
         ELSE FirstTrigger(query_lower, n + 1)

\* RAGSystem._generate_fallback_response
generate_fallback_response(query) == FirstTrigger(Strip(Lower(query)), 1)

\* RAGSystem._build_context
build_context(docs) ==
    IF docs = <<>> THEN <<>>
    ELSE Join([i \in 1..Len(docs) |->
                 DocumentLabel \o ToDecimal(i) \o ColonNewline \o docs[i].text],
              BlankLine)

\* RAGSystem._generate_with_template.  tier names the branch that wrote
\* the text: "template" or "fallback".
generate_with_template(query, context) ==
    IF context = <<>>
    THEN [text |-> generate_fallback_response(query), tier |-> "fallback"]
    ELSE [text |-> TemplateLead \o Take(context, ExcerptLen) \o Ellipsis,
          tier |-> "template"]

\* the prompt of _generate_with_llm
BuildPrompt(query, context) ==
    PromptHead \o context \o PromptQuestion \o query \o PromptTail

\* an except branch that goes straight to the fixed responses instead of
\* the template
generate_with_llm_skipping_template(query, context, outcome) ==
    IF outcome.kind = "raise"
    THEN [text |-> generate_fallback_response(query), tier |-> "fallback"]
    ELSE LET prompt == BuildPrompt(query, context)
             generated_text == prompt \o outcome.continuation
         IN [text |-> Strip(Replace(generated_text, prompt, <<>>)), tier |-> "llm"]

\* RAGSystem._generate_with_llm.  outcome is what the text-generation
\* pipeline does with the prompt: it raises (any exception of the try
\* block), or it returns the prompt followed by a continuation.
generate_with_llm(query, context, outcome) ==
    IF outcome.kind = "raise"
    THEN generate_with_template(query, context)
    ELSE LET prompt == BuildPrompt(query, context)
             generated_text == prompt \o outcome.continuation
         IN [text |-> Strip(Replace(generated_text, prompt, <<>>)), tier |-> "llm"]

\* doc.get("metadata", {}).get(key, default)
MetaGet(doc, key, default) ==
    IF "metadata" \in DOMAIN doc /\ key \in DOMAIN doc.metadata
    THEN doc.metadata[key] ELSE default

\* the sources list of generate_response
SourcesOf(context_docs) ==
    [i \in 1..Len(context_docs) |->
       [title |-> MetaGet(context_docs[i], "title", SourcePlaceholder),
        url |-> MetaGet(context_docs[i], "url", <<>>),
        similarity |-> IF "similarity" \in DOMAIN context_docs[i]
                       THEN context_docs[i].similarity ELSE 0]]

\* a flag that is set whatever the context
ContextUsedAlways(context_docs) == Len(context_docs) >= 0

\* len(context_docs) > 0
ContextUsed(context_docs) == Len(context_docs) > 0

\* RAGSystem.generate_response.  llm is self.llm_pipeline (TRUE when a
\* pipeline is loaded); tier and llm_raised record which tier answered.
generate_response(query, context_docs, llm, outcome) ==
    LET context == build_context(context_docs)
        answer == IF llm THEN generate_with_llm(query, context, outcome)
                  ELSE generate_with_template(query, context)
    IN [response |-> answer.text,
        sources |-> SourcesOf(context_docs),
        context_used |-> ContextUsed(context_docs),
        tier |-> answer.tier,
        llm_raised |-> llm /\ outcome.kind = "raise"]

(***************************************************************************)
(* The vector index (the ChromaDB collection) and retrieval                *)
(***************************************************************************)
\* The cosine distance, in hundredths, that the index reports between a
\* query and a stored text.  The encoder is outside the repository; its
\* geometry is an input: profile 0 puts every text far from every query,
\* profile 2 near, the others mix near and far around the threshold.
DistanceTable(profile) ==
    CASE profile = 0 -> <<71, 100, 150, 120, 71, 200>>
      [] profile = 1 -> <<0, 35, 70, 71, 100, 150>>
      [] profile = 2 -> <<0, 10, 35, 50, 70, 70>>
      [] OTHER -> <<150, 70, 0, 71, 35, 100>>

Distance(profile, query, text) ==
    DistanceTable(profile)[((Len(text) + Len(query)) % 6) + 1]

\* collection.query(query_embeddings=[..], n_results=n): the n nearest
\* entries by ascending distance (ties in insertion order).  The index
\* rejects n <= 0, and a query fails when the index is unreachable (fails)
\* or its collection was deleted (not alive).
CollectionQuery(coll, query, n_results, profile, fails) ==
    IF fails \/ ~coll.alive \/ n_results <= 0 THEN [raised |-> TRUE]
    ELSE LET e == coll.entries
             d == [i \in 1..Len(e) |-> Distance(profile, query, e[i].text)]
             Rank(i) == Cardinality({j \in 1..Len(e) :
                             d[j] < d[i] \/ (d[j] = d[i] /\ j < i)}) + 1
             n == IF n_results < Len(e) THEN n_results ELSE Len(e)
             order == [r \in 1..n |-> CHOOSE i \in 1..Len(e) : Rank(i) = r]
         IN [raised |-> FALSE,
             ids |-> << [r \in 1..n |-> e[order[r]].id] >>,
             distances |-> << [r \in 1..n |-> d[order[r]]] >>,
             documents |-> << [r \in 1..n |-> e[order[r]].text] >>,
             metadatas |-> << [r \in 1..n |-> e[order[r]].metadata] >>]

\* a filter that lets every raw result through
PassesThresholdOpen(similarity) == similarity >= 0 - One

\* similarity >= RAG_CONFIG["similarity_threshold"]
PassesThreshold(similarity) == similarity >= SimilarityThreshold

\* a loop that collects the matches at the front of the list (each match
\* inserted before the earlier ones)
FormatResultsPrepending(results) ==
    IF results.ids # <<>> /\ Len(results.ids) > 0
    THEN LET ids == results.ids[1]
             n == Len(ids)
             all == [i \in 1..n |->
                       [id |-> ids[n + 1 - i],
                        text |-> results.documents[1][n + 1 - i],
                        metadata |-> results.metadatas[1][n + 1 - i],
                        similarity |-> One - (IF results.distances # <<>>
                                              THEN results.distances[1][n + 1 - i]
                                              ELSE 0)]]
         IN SelectSeq(all, LAMBDA doc : PassesThreshold(doc.similarity))
    ELSE <<>>

\* the loop of retrieve_documents over the raw results
FormatResults(results) ==
    IF results.ids # <<>> /\ Len(results.ids) > 0
    THEN LET ids == results.ids[1]
             all == [i \in 1..Len(ids) |->
                       [id |-> ids[i],
                        text |-> results.documents[1][i],
                        metadata |-> results.metadatas[1][i],
                        similarity |-> One - (IF results.distances # <<>>
                                              THEN results.distances[1][i]
                                              ELSE 0)]]
         IN SelectSeq(all, LAMBDA doc : PassesThreshold(doc.similarity))
    ELSE <<>>

\* top_k of retrieve_documents: the configured default when it is None
EffectiveTopK(top_k) == IF top_k = None THEN TopKDefault ELSE top_k[1]

\* RAGSystem.retrieve_documents: raised, or the matches (raw is what the
\* index returned before the threshold filter)
retrieve_documents(coll, query, top_k, profile, fails) ==
    LET results == CollectionQuery(coll, query, EffectiveTopK(top_k), profile, fails)
    IN IF results.raised
       THEN [raised |-> TRUE, query |-> query, top_k |-> top_k]
       ELSE [raised |-> FALSE, query |-> query, top_k |-> top_k,
             raw |-> results, docs |-> FormatResults(results)]

\* RAGSystem.add_documents: collection.add raises on a deleted collection,
\* an empty batch or a batch with a repeated id; an id the collection
\* already holds is skipped.
add_documents(coll, docs) ==
    LET ids == {docs[i].id : i \in 1..Len(docs)}
        held == {coll.entries[i].id : i \in 1..Len(coll.entries)}
        fresh == SelectSeq(docs, LAMBDA doc : doc.id \notin held)
    IN IF ~coll.alive \/ docs = <<>> \/ Cardinality(ids) # Len(docs)
       THEN [raised |-> TRUE, coll |-> coll]
       ELSE [raised |-> FALSE,
             coll |-> [coll EXCEPT !.entries = @ \o
                         [i \in 1..Len(fresh) |->
                            [id |-> fresh[i].id, text |-> fresh[i].text,
                             metadata |-> fresh[i].metadata]]]]

\* RAGSystem.load_corpus: a missing file (FileNotFoundError) or a file that
\* is not JSON (json.JSONDecodeError) is logged and nothing is added; any
\* other exception of the read (kind "unreadable") and an exception of
\* add_documents propagate
load_corpus(coll, file) ==
    IF file.kind = "json" THEN add_documents(coll, file.docs)
    ELSE IF file.kind \in {"missing", "malformed"}
    THEN [raised |-> FALSE, coll |-> coll]
    ELSE [raised |-> TRUE, coll |-> coll]

\* RAGSystem.clear_database.  outcome is what the index does:
\* "delete_fails" (delete_collection raises), "create_fails"
\* (create_collection raises after the delete) or "ok".  Every exception
\* is caught and logged.  self.collection is reassigned only when both
\* calls succeed; deleting a collection that no longer exists raises.
clear_database(coll, outcome) ==
    IF ~coll.alive \/ outcome = "delete_fails" THEN coll
    ELSE IF outcome = "create_fails" THEN [entries |-> <<>>, alive |-> FALSE]
    ELSE [entries |-> <<>>, alive |-> TRUE]

(***************************************************************************)
(* DataLoader (data_loader.py)                                             *)
(***************************************************************************)
\* DocIdPrefix is the text "doc_" (4 characters, as code points)
DocIdPrefix ==
    <<100, 111, 99, 95>>
\* CatTourisme is the text "tourisme" (8 characters, as code points)
CatTourisme ==
    <<116, 111, 117, 114, 105, 115, 109, 101>>
\* CatCulture is the text "culture" (7 characters, as code points)
CatCulture ==
    <<99, 117, 108, 116, 117, 114, 101>>
\* SourceManual is the text "manual" (6 characters, as code points)
SourceManual ==
    <<109, 97, 110, 117, 97, 108>>
\* SourceWeb is the text "web" (3 characters, as code points)
SourceWeb ==
    <<119, 101, 98>>

\* f"doc_{len(self.documents) + 1}"
NextDocId(documents) == DocIdPrefix \o ToDecimal(Len(documents) + 1)

\* an add_document without the length test
add_document_admitting_all(loader, text, title, url, category, source_type) ==
    [documents |-> Append(loader.documents,
                          [id |-> DocIdPrefix \o ToDecimal(Len(loader.documents) + 1),
                           text |-> clean_text(text),
                           metadata |-> [title |-> title, url |-> url,
                                         category |-> category,
                                         source_type |-> source_type]]),
     sources |-> IF url # <<>> THEN loader.sources \cup {url} ELSE loader.sources]

\* DataLoader.add_document on loader = [documents, sources]; the
\* added_date timestamp of the metadata is not modelled
add_document(loader, text, title, url, category, source_type) ==
    LET cleaned_text == clean_text(text) IN
    IF Len(cleaned_text) < MinDocLen THEN loader
    ELSE [documents |-> Append(loader.documents,
                          [id |-> NextDocId(loader.documents),
                           text |-> cleaned_text,
                           metadata |-> [title |-> title, url |-> url,
                                         category |-> category,
                                         source_type |-> source_type]]),
          sources |-> IF url # <<>> THEN loader.sources \cup {url}
                      ELSE loader.sources]

\* SampleText1 is the text "Ouagadougou est la capitale du Burkina Faso. La ville est le centre..." (300 characters, as code points)
SampleText1 ==
    <<79, 117, 97, 103, 97, 100, 111, 117, 103, 111, 117, 32, 101, 115, 116, 32, 108, 97, 32, 99, 97, 112, 105, 116, 97, 108, 101, 32, 100, 117, 32, 66, 117, 114, 107, 105, 110, 97, 32, 70, 97, 115, 111, 46, 32, 76, 97, 32, 118, 105, 108, 108, 101, 32, 101, 115, 116, 32, 108, 101, 32, 99, 101, 110, 116, 114, 101, 32, 112, 111, 108, 105, 116, 105, 113, 117, 101, 44, 32, 233, 99, 111, 110, 111, 109, 105, 113, 117, 101, 32, 101, 116, 32, 99, 117, 108, 116, 117, 114, 101, 108, 32, 100, 117, 32, 112, 97, 121, 115, 46, 32, 69, 108, 108, 101, 32, 97, 98, 114, 105, 116, 101, 32, 108, 101, 32, 80, 97, 108, 97, 105, 115, 32, 100, 101, 32, 75, 111, 117, 108, 111, 117, 98, 97, 44, 32, 114, 233, 115, 105, 100, 101, 110, 99, 101, 32, 111, 102, 102, 105, 99, 105, 101, 108, 108, 101, 32, 100, 117, 32, 112, 114, 233, 115, 105, 100, 101, 110, 116, 44, 32, 101, 116, 32, 100, 101, 32, 110, 111, 109, 98, 114, 101, 117, 120, 32, 109, 117, 115, 233, 101, 115, 32, 105, 109, 112, 111, 114, 116, 97, 110, 116, 115, 32, 99, 111, 109, 109, 101, 32, 108, 101, 32, 77, 117, 115, 233, 101, 32, 78, 97, 116, 105, 111, 110, 97, 108, 32, 100, 117, 32, 66, 117, 114, 107, 105, 110, 97, 32, 70, 97, 115, 111, 32, 113, 117, 105, 32, 112, 114, 233, 115, 101, 110, 116, 101, 32, 108, 39, 104, 105, 115, 116, 111, 105, 114, 101, 32, 101, 116, 32, 108, 97, 32, 99, 117, 108, 116, 117, 114, 101, 32, 100, 117, 32, 112, 97, 121, 115, 46>>
\* SampleTitle1 is the text "Ouagadougou - Capitale du Burkina Faso" (38 characters, as code points)
SampleTitle1 ==
    <<79, 117, 97, 103, 97, 100, 111, 117, 103, 111, 117, 32, 45, 32, 67, 97, 112, 105, 116, 97, 108, 101, 32, 100, 117, 32, 66, 117, 114, 107, 105, 110, 97, 32, 70, 97, 115, 111>>
\* SampleText2 is the text "Bobo-Dioulasso est la deuxième plus grande ville du Burkina Faso. C..." (294 characters, as code points)
SampleText2 ==
    <<66, 111, 98, 111, 45, 68, 105, 111, 117, 108, 97, 115, 115, 111, 32, 101, 115, 116, 32, 108, 97, 32, 100, 101, 117, 120, 105, 232, 109, 101, 32, 112, 108, 117, 115, 32, 103, 114, 97, 110, 100, 101, 32, 118, 105, 108, 108, 101, 32, 100, 117, 32, 66, 117, 114, 107, 105, 110, 97, 32, 70, 97, 115, 111, 46, 32, 67, 111, 110, 110, 117, 101, 32, 99, 111, 109, 109, 101, 32, 108, 97, 32, 118, 105, 108, 108, 101, 32, 100, 101, 115, 32, 97, 114, 116, 115, 32, 101, 116, 32, 100, 101, 32, 108, 97, 32, 99, 117, 108, 116, 117, 114, 101, 44, 32, 101, 108, 108, 101, 32, 101, 115, 116, 32, 117, 110, 32, 105, 109, 112, 111, 114, 116, 97, 110, 116, 32, 99, 101, 110, 116, 114, 101, 32, 116, 111, 117, 114, 105, 115, 116, 105, 113, 117, 101, 32, 97, 118, 101, 99, 32, 115, 101, 115, 32, 109, 111, 115, 113, 117, 233, 101, 115, 32, 97, 110, 99, 105, 101, 110, 110, 101, 115, 44, 32, 115, 101, 115, 32, 109, 97, 114, 99, 104, 233, 115, 32, 99, 111, 108, 111, 114, 233, 115, 32, 101, 116, 32, 115, 111, 110, 32, 97, 114, 99, 104, 105, 116, 101, 99, 116, 117, 114, 101, 32, 116, 114, 97, 100, 105, 116, 105, 111, 110, 110, 101, 108, 108, 101, 46, 32, 76, 97, 32, 118, 105, 108, 108, 101, 32, 101, 115, 116, 32, 97, 117, 115, 115, 105, 32, 117, 110, 32, 99, 97, 114, 114, 101, 102, 111, 117, 114, 32, 99, 111, 109, 109, 101, 114, 99, 105, 97, 108, 32, 105, 109, 112, 111, 114, 116, 97, 110, 116, 46>>
\* SampleTitle2 is the text "Bobo-Dioulasso - Ville des Arts" (31 characters, as code points)
SampleTitle2 ==
    <<66, 111, 98, 111, 45, 68, 105, 111, 117, 108, 97, 115, 115, 111, 32, 45, 32, 86, 105, 108, 108, 101, 32, 100, 101, 115, 32, 65, 114, 116, 115>>
\* SampleText3 is the text "La Cascade de Karfiguéla est l'une des plus belles cascades du Burk..." (274 characters, as code points)
SampleText3 ==
    <<76, 97, 32, 67, 97, 115, 99, 97, 100, 101, 32, 100, 101, 32, 75, 97, 114, 102, 105, 103, 117, 233, 108, 97, 32, 101, 115, 116, 32, 108, 39, 117, 110, 101, 32, 100, 101, 115, 32, 112, 108, 117, 115, 32, 98, 101, 108, 108, 101, 115, 32, 99, 97, 115, 99, 97, 100, 101, 115, 32, 100, 117, 32, 66, 117, 114, 107, 105, 110, 97, 32, 70, 97, 115, 111, 44, 32, 115, 105, 116, 117, 233, 101, 32, 100, 97, 110, 115, 32, 108, 97, 32, 114, 233, 103, 105, 111, 110, 32, 100, 101, 32, 67, 97, 115, 99, 97, 100, 101, 115, 46, 32, 69, 108, 108, 101, 32, 111, 102, 102, 114, 101, 32, 117, 110, 32, 112, 97, 121, 115, 97, 103, 101, 32, 115, 112, 101, 99, 116, 97, 99, 117, 108, 97, 105, 114, 101, 32, 97, 118, 101, 99, 32, 115, 101, 115, 32, 99, 104, 117, 116, 101, 115, 32, 100, 39, 101, 97, 117, 32, 100, 101, 32, 54, 48, 32, 109, 232, 116, 114, 101, 115, 32, 100, 101, 32, 104, 97, 117, 116, 101, 117, 114, 46, 32, 67, 39, 101, 115, 116, 32, 117, 110, 101, 32, 100, 101, 115, 116, 105, 110, 97, 116, 105, 111, 110, 32, 112, 111, 112, 117, 108, 97, 105, 114, 101, 32, 112, 111, 117, 114, 32, 108, 101, 115, 32, 114, 97, 110, 100, 111, 110, 110, 101, 117, 114, 115, 32, 101, 116, 32, 108, 101, 115, 32, 97, 109, 97, 116, 101, 117, 114, 115, 32, 100, 101, 32, 110, 97, 116, 117, 114, 101, 46>>
\* SampleTitle3 is the text "Cascade de Karfiguéla" (21 characters, as code points)
SampleTitle3 ==
    <<67, 97, 115, 99, 97, 100, 101, 32, 100, 101, 32, 75, 97, 114, 102, 105, 103, 117, 233, 108, 97>>
\* SampleText4 is the text "Le Parc W est une réserve naturelle transfrontalière partagée par l..." (279 characters, as code points)
SampleText4 ==
    <<76, 101, 32, 80, 97, 114, 99, 32, 87, 32, 101, 115, 116, 32, 117, 110, 101, 32, 114, 233, 115, 101, 114, 118, 101, 32, 110, 97, 116, 117, 114, 101, 108, 108, 101, 32, 116, 114, 97, 110, 115, 102, 114, 111, 110, 116, 97, 108, 105, 232, 114, 101, 32, 112, 97, 114, 116, 97, 103, 233, 101, 32, 112, 97, 114, 32, 108, 101, 32, 66, 117, 114, 107, 105, 110, 97, 32, 70, 97, 115, 111, 44, 32, 108, 101, 32, 78, 105, 103, 101, 114, 32, 101, 116, 32, 108, 101, 32, 66, 233, 110, 105, 110, 46, 32, 67, 39, 101, 115, 116, 32, 108, 39, 117, 110, 32, 100, 101, 115, 32, 112, 108, 117, 115, 32, 103, 114, 97, 110, 100, 115, 32, 112, 97, 114, 99, 115, 32, 110, 97, 116, 105, 111, 110, 97, 117, 120, 32, 100, 39, 65, 102, 114, 105, 113, 117, 101, 32, 100, 101, 32, 108, 39, 79, 117, 101, 115, 116, 44, 32, 114, 105, 99, 104, 101, 32, 101, 110, 32, 102, 97, 117, 110, 101, 32, 115, 97, 117, 118, 97, 103, 101, 32, 105, 110, 99, 108, 117, 97, 110, 116, 32, 100, 101, 115, 32, 233, 108, 233, 112, 104, 97, 110, 116, 115, 44, 32, 100, 101, 115, 32, 108, 105, 111, 110, 115, 32, 101, 116, 32, 100, 101, 115, 32, 97, 110, 116, 105, 108, 111, 112, 101, 115, 46, 32, 67, 39, 101, 115, 116, 32, 117, 110, 32, 112, 97, 114, 97, 100, 105, 115, 32, 112, 111, 117, 114, 32, 108, 101, 115, 32, 115, 97, 102, 97, 114, 105, 115, 46>>
\* SampleTitle4 is the text "Parc W - Réserve Naturelle" (26 characters, as code points)
SampleTitle4 ==
    <<80, 97, 114, 99, 32, 87, 32, 45, 32, 82, 233, 115, 101, 114, 118, 101, 32, 78, 97, 116, 117, 114, 101, 108, 108, 101>>
\* SampleText5 is the text "La Fête de la Musique de Dédougou est un événement culturel annuel ..." (242 characters, as code points)
SampleText5 ==
    <<76, 97, 32, 70, 234, 116, 101, 32, 100, 101, 32, 108, 97, 32, 77, 117, 115, 105, 113, 117, 101, 32, 100, 101, 32, 68, 233, 100, 111, 117, 103, 111, 117, 32, 101, 115, 116, 32, 117, 110, 32, 233, 118, 233, 110, 101, 109, 101, 110, 116, 32, 99, 117, 108, 116, 117, 114, 101, 108, 32, 97, 110, 110, 117, 101, 108, 32, 113, 117, 105, 32, 99, 233, 108, 232, 98, 114, 101, 32, 108, 97, 32, 109, 117, 115, 105, 113, 117, 101, 32, 116, 114, 97, 100, 105, 116, 105, 111, 110, 110, 101, 108, 108, 101, 32, 101, 116, 32, 99, 111, 110, 116, 101, 109, 112, 111, 114, 97, 105, 110, 101, 32, 100, 117, 32, 66, 117, 114, 107, 105, 110, 97, 32, 70, 97, 115, 111, 46, 32, 69, 108, 108, 101, 32, 97, 116, 116, 105, 114, 101, 32, 100, 101, 115, 32, 109, 117, 115, 105, 99, 105, 101, 110, 115, 32, 101, 116, 32, 100, 101, 115, 32, 118, 105, 115, 105, 116, 101, 117, 114, 115, 32, 100, 117, 32, 109, 111, 110, 100, 101, 32, 101, 110, 116, 105, 101, 114, 32, 112, 111, 117, 114, 32, 100, 233, 99, 111, 117, 118, 114, 105, 114, 32, 108, 97, 32, 114, 105, 99, 104, 101, 115, 115, 101, 32, 109, 117, 115, 105, 99, 97, 108, 101, 32, 100, 117, 32, 112, 97, 121, 115, 46>>
\* SampleTitle5 is the text "Fête de la Musique de Dédougou" (30 characters, as code points)
SampleTitle5 ==
    <<70, 234, 116, 101, 32, 100, 101, 32, 108, 97, 32, 77, 117, 115, 105, 113, 117, 101, 32, 100, 101, 32, 68, 233, 100, 111, 117, 103, 111, 117>>
\* SampleText6 is the text "Les tissus traditionnels du Burkina Faso, en particulier le bogolan..." (269 characters, as code points)
SampleText6 ==
    <<76, 101, 115, 32, 116, 105, 115, 115, 117, 115, 32, 116, 114, 97, 100, 105, 116, 105, 111, 110, 110, 101, 108, 115, 32, 100, 117, 32, 66, 117, 114, 107, 105, 110, 97, 32, 70, 97, 115, 111, 44, 32, 101, 110, 32, 112, 97, 114, 116, 105, 99, 117, 108, 105, 101, 114, 32, 108, 101, 32, 98, 111, 103, 111, 108, 97, 110, 32, 40, 116, 105, 115, 115, 117, 32, 116, 101, 105, 110, 116, 32, 97, 118, 101, 99, 32, 100, 101, 32, 108, 97, 32, 98, 111, 117, 101, 41, 44, 32, 115, 111, 110, 116, 32, 109, 111, 110, 100, 105, 97, 108, 101, 109, 101, 110, 116, 32, 114, 101, 99, 111, 110, 110, 117, 115, 46, 32, 67, 101, 115, 32, 116, 105, 115, 115, 117, 115, 32, 115, 111, 110, 116, 32, 112, 114, 111, 100, 117, 105, 116, 115, 32, 112, 97, 114, 32, 100, 101, 115, 32, 97, 114, 116, 105, 115, 97, 110, 115, 32, 108, 111, 99, 97, 117, 120, 32, 117, 116, 105, 108, 105, 115, 97, 110, 116, 32, 100, 101, 115, 32, 116, 101, 99, 104, 110, 105, 113, 117, 101, 115, 32, 97, 110, 99, 101, 115, 116, 114, 97, 108, 101, 115, 32, 101, 116, 32, 115, 111, 110, 116, 32, 100, 101, 115, 32, 115, 121, 109, 98, 111, 108, 101, 115, 32, 105, 109, 112, 111, 114, 116, 97, 110, 116, 115, 32, 100, 101, 32, 108, 97, 32, 99, 117, 108, 116, 117, 114, 101, 32, 98, 117, 114, 107, 105, 110, 97, 98, 232, 46>>
\* SampleTitle6 is the text "Artisanat Textile Burkinabè" (27 characters, as code points)
SampleTitle6 ==
    <<65, 114, 116, 105, 115, 97, 110, 97, 116, 32, 84, 101, 120, 116, 105, 108, 101, 32, 66, 117, 114, 107, 105, 110, 97, 98, 232>>
\* SampleText7 is the text "Le Musée National du Burkina Faso à Ouagadougou présente une collec..." (270 characters, as code points)
SampleText7 ==
    <<76, 101, 32, 77, 117, 115, 233, 101, 32, 78, 97, 116, 105, 111, 110, 97, 108, 32, 100, 117, 32, 66, 117, 114, 107, 105, 110, 97, 32, 70, 97, 115, 111, 32, 224, 32, 79, 117, 97, 103, 97, 100, 111, 117, 103, 111, 117, 32, 112, 114, 233, 115, 101, 110, 116, 101, 32, 117, 110, 101, 32, 99, 111, 108, 108, 101, 99, 116, 105, 111, 110, 32, 99, 111, 109, 112, 108, 232, 116, 101, 32, 100, 39, 97, 114, 116, 101, 102, 97, 99, 116, 115, 32, 104, 105, 115, 116, 111, 114, 105, 113, 117, 101, 115, 32, 101, 116, 32, 99, 117, 108, 116, 117, 114, 101, 108, 115, 46, 32, 76, 101, 115, 32, 118, 105, 115, 105, 116, 101, 117, 114, 115, 32, 112, 101, 117, 118, 101, 110, 116, 32, 101, 120, 112, 108, 111, 114, 101, 114, 32, 108, 39, 104, 105, 115, 116, 111, 105, 114, 101, 32, 100, 117, 32, 112, 97, 121, 115, 32, 224, 32, 116, 114, 97, 118, 101, 114, 115, 32, 100, 101, 115, 32, 101, 120, 112, 111, 115, 105, 116, 105, 111, 110, 115, 32, 112, 101, 114, 109, 97, 110, 101, 110, 116, 101, 115, 32, 101, 116, 32, 116, 101, 109, 112, 111, 114, 97, 105, 114, 101, 115, 32, 99, 111, 117, 118, 114, 97, 110, 116, 32, 108, 39, 97, 114, 99, 104, 233, 111, 108, 111, 103, 105, 101, 44, 32, 108, 39, 101, 116, 104, 110, 111, 103, 114, 97, 112, 104, 105, 101, 32, 101, 116, 32, 108, 39, 97, 114, 116, 46>>
\* SampleTitle7 is the text "Musée National du Burkina Faso" (30 characters, as code points)
SampleTitle7 ==
    <<77, 117, 115, 233, 101, 32, 78, 97, 116, 105, 111, 110, 97, 108, 32, 100, 117, 32, 66, 117, 114, 107, 105, 110, 97, 32, 70, 97, 115, 111>>
\* SampleText8 is the text "Banfora est une ville pittoresque dans la région des Cascades, conn..." (271 characters, as code points)
SampleText8 ==
    <<66, 97, 110, 102, 111, 114, 97, 32, 101, 115, 116, 32, 117, 110, 101, 32, 118, 105, 108, 108, 101, 32, 112, 105, 116, 116, 111, 114, 101, 115, 113, 117, 101, 32, 100, 97, 110, 115, 32, 108, 97, 32, 114, 233, 103, 105, 111, 110, 32, 100, 101, 115, 32, 67, 97, 115, 99, 97, 100, 101, 115, 44, 32, 99, 111, 110, 110, 117, 101, 32, 112, 111, 117, 114, 32, 115, 101, 115, 32, 108, 97, 99, 115, 32, 99, 111, 108, 111, 114, 233, 115, 32, 101, 116, 32, 115, 101, 115, 32, 102, 111, 114, 109, 97, 116, 105, 111, 110, 115, 32, 114, 111, 99, 104, 101, 117, 115, 101, 115, 32, 115, 112, 101, 99, 116, 97, 99, 117, 108, 97, 105, 114, 101, 115, 46, 32, 76, 101, 115, 32, 76, 97, 99, 115, 32, 67, 111, 108, 111, 114, 233, 115, 32, 100, 101, 32, 66, 97, 110, 102, 111, 114, 97, 32, 115, 111, 110, 116, 32, 117, 110, 101, 32, 97, 116, 116, 114, 97, 99, 116, 105, 111, 110, 32, 116, 111, 117, 114, 105, 115, 116, 105, 113, 117, 101, 32, 109, 97, 106, 101, 117, 114, 101, 32, 97, 118, 101, 99, 32, 108, 101, 117, 114, 115, 32, 101, 97, 117, 120, 32, 116, 101, 105, 110, 116, 233, 101, 115, 32, 100, 101, 32, 100, 105, 102, 102, 233, 114, 101, 110, 116, 101, 115, 32, 99, 111, 117, 108, 101, 117, 114, 115, 32, 100, 117, 101, 115, 32, 97, 117, 120, 32, 109, 105, 110, 233, 114, 97, 117, 120, 46>>
\* SampleTitle8 is the text "Banfora et ses Lacs Colorés" (27 characters, as code points)
SampleTitle8 ==
    <<66, 97, 110, 102, 111, 114, 97, 32, 101, 116, 32, 115, 101, 115, 32, 76, 97, 99, 115, 32, 67, 111, 108, 111, 114, 233, 115>>
\* SampleText9 is the text "La cuisine burkinabè est riche et variée, basée sur des ingrédients..." (261 characters, as code points)
SampleText9 ==
    <<76, 97, 32, 99, 117, 105, 115, 105, 110, 101, 32, 98, 117, 114, 107, 105, 110, 97, 98, 232, 32, 101, 115, 116, 32, 114, 105, 99, 104, 101, 32, 101, 116, 32, 118, 97, 114, 105, 233, 101, 44, 32, 98, 97, 115, 233, 101, 32, 115, 117, 114, 32, 100, 101, 115, 32, 105, 110, 103, 114, 233, 100, 105, 101, 110, 116, 115, 32, 108, 111, 99, 97, 117, 120, 32, 99, 111, 109, 109, 101, 32, 108, 101, 32, 109, 105, 108, 44, 32, 108, 101, 32, 115, 111, 114, 103, 104, 111, 44, 32, 108, 101, 115, 32, 97, 114, 97, 99, 104, 105, 100, 101, 115, 32, 101, 116, 32, 108, 101, 115, 32, 108, 233, 103, 117, 109, 101, 115, 46, 32, 76, 101, 115, 32, 112, 108, 97, 116, 115, 32, 112, 111, 112, 117, 108, 97, 105, 114, 101, 115, 32, 105, 110, 99, 108, 117, 101, 110, 116, 32, 108, 101, 32, 114, 105, 122, 32, 103, 114, 97, 115, 44, 32, 108, 101, 32, 116, 244, 44, 32, 101, 116, 32, 108, 101, 115, 32, 98, 114, 111, 99, 104, 101, 116, 116, 101, 115, 46, 32, 76, 97, 32, 103, 97, 115, 116, 114, 111, 110, 111, 109, 105, 101, 32, 108, 111, 99, 97, 108, 101, 32, 114, 101, 102, 108, 232, 116, 101, 32, 108, 97, 32, 100, 105, 118, 101, 114, 115, 105, 116, 233, 32, 99, 117, 108, 116, 117, 114, 101, 108, 108, 101, 32, 100, 117, 32, 112, 97, 121, 115, 46>>
\* SampleTitle9 is the text "Gastronomie Burkinabè" (21 characters, as code points)
SampleTitle9 ==
    <<71, 97, 115, 116, 114, 111, 110, 111, 109, 105, 101, 32, 66, 117, 114, 107, 105, 110, 97, 98, 232>>
\* SampleText10 is the text "Le Festival Panafricain du Cinéma et de la Télévision (FESPACO) est..." (249 characters, as code points)
SampleText10 ==
    <<76, 101, 32, 70, 101, 115, 116, 105, 118, 97, 108, 32, 80, 97, 110, 97, 102, 114, 105, 99, 97, 105, 110, 32, 100, 117, 32, 67, 105, 110, 233, 109, 97, 32, 101, 116, 32, 100, 101, 32, 108, 97, 32, 84, 233, 108, 233, 118, 105, 115, 105, 111, 110, 32, 40, 70, 69, 83, 80, 65, 67, 79, 41, 32, 101, 115, 116, 32, 108, 39, 117, 110, 32, 100, 101, 115, 32, 112, 108, 117, 115, 32, 103, 114, 97, 110, 100, 115, 32, 102, 101, 115, 116, 105, 118, 97, 108, 115, 32, 100, 101, 32, 99, 105, 110, 233, 109, 97, 32, 100, 39, 65, 102, 114, 105, 113, 117, 101, 44, 32, 111, 114, 103, 97, 110, 105, 115, 233, 32, 116, 111, 117, 115, 32, 108, 101, 115, 32, 100, 101, 117, 120, 32, 97, 110, 115, 32, 224, 32, 79, 117, 97, 103, 97, 100, 111, 117, 103, 111, 117, 46, 32, 73, 108, 32, 99, 233, 108, 232, 98, 114, 101, 32, 108, 101, 32, 99, 105, 110, 233, 109, 97, 32, 97, 102, 114, 105, 99, 97, 105, 110, 32, 101, 116, 32, 97, 116, 116, 105, 114, 101, 32, 100, 101, 115, 32, 99, 105, 110, 233, 97, 115, 116, 101, 115, 32, 101, 116, 32, 100, 101, 115, 32, 118, 105, 115, 105, 116, 101, 117, 114, 115, 32, 100, 117, 32, 109, 111, 110, 100, 101, 32, 101, 110, 116, 105, 101, 114, 46>>
\* SampleTitle10 is the text "FESPACO - Festival de Cinéma" (28 characters, as code points)
SampleTitle10 ==
    <<70, 69, 83, 80, 65, 67, 79, 32, 45, 32, 70, 101, 115, 116, 105, 118, 97, 108, 32, 100, 101, 32, 67, 105, 110, 233, 109, 97>>

\* sample_documents of DataLoader.add_sample_data
sample_documents == <<
    [text |-> SampleText1, title |-> SampleTitle1, category |-> CatTourisme],
    [text |-> SampleText2, title |-> SampleTitle2, category |-> CatTourisme],
    [text |-> SampleText3, title |-> SampleTitle3, category |-> CatTourisme],
    [text |-> SampleText4, title |-> SampleTitle4, category |-> CatTourisme],
    [text |-> SampleText5, title |-> SampleTitle5, category |-> CatCulture],
    [text |-> SampleText6, title |-> SampleTitle6, category |-> CatCulture],
    [text |-> SampleText7, title |-> SampleTitle7, category |-> CatTourisme],
    [text |-> SampleText8, title |-> SampleTitle8, category |-> CatTourisme],
    [text |-> SampleText9, title |-> SampleTitle9, category |-> CatTourisme],
    [text |-> SampleText10, title |-> SampleTitle10, category |-> CatCulture]
>>

\* the loop of add_sample_data from sample n on
RECURSIVE AddSamplesFrom(_, _)
AddSamplesFrom(loader, n) ==
    IF n > Len(sample_documents) THEN loader
    ELSE AddSamplesFrom(
           add_document(loader, sample_documents[n].text,
                        sample_documents[n].title, <<>>,
                        sample_documents[n].category, SourceManual),
           n + 1)

\* DataLoader.add_sample_data
add_sample_data(loader) == AddSamplesFrom(loader, 1)

\* DataLoader.get_statistics()["total_documents"]
total_documents(loader) == Len(loader.documents)


\* DataLoader.load_corpus reading file: a missing file is logged and []
\* returned; a file that is not JSON or whose bytes are not UTF-8 makes
\* json.load raise (only FileNotFoundError is caught); otherwise
\* self.documents becomes the list of the file
loader_load_corpus(ldr, file) ==
    IF file.kind = "json"
    THEN [raised |-> FALSE, returned |-> file.docs,
          loader |-> [ldr EXCEPT !.documents = file.docs]]
    ELSE IF file.kind = "missing"
    THEN [raised |-> FALSE, returned |-> <<>>, loader |-> ldr]
    ELSE [raised |-> TRUE, loader |-> ldr]

\* DataLoader.fetch_web_content.  page is what requests.get and
\* BeautifulSoup give for url: a requests.RequestException (ok FALSE), which
\* is logged and None returned, or the text of the page and the text of its
\* title tag, None when it has none.  The title of the document is the one
\* given, else the title tag, else the url.
fetch_web_content(ldr, url, title, page) ==
    IF ~page.ok THEN [returned |-> None, loader |-> ldr]
    ELSE LET used == IF title # <<>> THEN title
                     ELSE IF page.title_tag # None THEN page.title_tag[1]
                     ELSE url
         IN [returned |-> Some(page.text),
             loader |-> add_document(ldr, page.text, used, url, CatTourisme,
                                     SourceWeb)]

\* DataLoader.save_corpus: the file json.dump writes
save_corpus(ldr) == [kind |-> "json", docs |-> ldr.documents]
(***************************************************************************)
(* The HTTP handlers (main.py)                                             *)
(***************************************************************************)
\* FoundLead is the text "Informations trouv\xe9es :\n\n" (25 characters, as code points)
FoundLead ==
    <<73, 110, 102, 111, 114, 109, 97, 116, 105, 111, 110, 115, 32, 116, 114, 111, 117, 118, 233, 101, 115, 32, 58, 10, 10>>
\* Newline is the text "\n" (1 characters, as code points)
Newline ==
    <<10>>
\* NotFoundText is the text "D\xe9sol\xe9, je n'ai pas trouv\xe9 d'information pr\xe9cise dans m..." (182 characters, as code points)
NotFoundText ==
    <<68, 233, 115, 111, 108, 233, 44, 32, 106, 101, 32, 110, 39, 97, 105, 32, 112, 97, 115, 32, 116, 114, 111, 117, 118, 233, 32, 100, 39, 105, 110, 102, 111, 114, 109, 97, 116, 105, 111, 110, 32, 112, 114, 233, 99, 105, 115, 101, 32, 100, 97, 110, 115, 32, 109, 101, 115, 32, 115, 111, 117, 114, 99, 101, 115, 32, 112, 111, 117, 114, 32, 118, 111, 116, 114, 101, 32, 113, 117, 101, 115, 116, 105, 111, 110, 46, 10, 69, 115, 115, 97, 121, 101, 122, 32, 100, 101, 32, 114, 101, 102, 111, 114, 109, 117, 108, 101, 114, 32, 97, 118, 101, 99, 32, 100, 101, 115, 32, 109, 111, 116, 115, 45, 99, 108, 233, 115, 32, 40, 101, 120, 58, 32, 39, 66, 97, 110, 102, 111, 114, 97, 39, 44, 32, 39, 70, 69, 83, 80, 65, 67, 79, 39, 44, 32, 39, 104, 233, 98, 101, 114, 103, 101, 109, 101, 110, 116, 32, 79, 117, 97, 103, 97, 100, 111, 117, 103, 111, 117, 39, 41, 46>>

\* a test that forgets the strip()
IsBlankQueryUnstripped(query) == query = <<>>

\* not request.query or len(request.query.strip()) == 0
IsBlankQuery(query) == query = <<>> \/ Len(Strip(query)) = 0

\* RAGSystem.chat.  rag_outcome injects an exception: "retrieval_raises"
\* (the index is unreachable), "generation_raises" (an exception after the
\* retrieval) or "ok".  steps lists the pipeline steps that ran.
rag_chat(coll, llm, query, profile, rag_outcome, llm_outcome) ==
    LET retrieved == retrieve_documents(coll, query, None, profile,
                                        rag_outcome = "retrieval_raises")
    IN IF retrieved.raised
       THEN [raised |-> TRUE, retrieved |-> retrieved, steps |-> <<"retrieve">>]
       ELSE IF rag_outcome = "generation_raises"
       THEN [raised |-> TRUE, retrieved |-> retrieved,
             steps |-> <<"retrieve", "generate">>]
       ELSE LET result == generate_response(query, retrieved.docs, llm, llm_outcome)
            IN [raised |-> FALSE, retrieved |-> retrieved, generated |-> result,
                steps |-> <<"retrieve", "generate">>,
                result |-> [response |-> result.response,
                            sources |-> result.sources,
                            context_used |-> result.context_used,
                            query |-> query,
                            num_sources |-> Len(retrieved.docs)]]

\* max_results=request.top_k or 5
FallbackLimit(top_k) ==
    IF top_k = None \/ top_k[1] = 0 THEN FallbackMaxResults ELSE top_k[1]

\* a handler that lets the exception of rag_system.chat end the request
keyword_fallback_reraising(query, top_k, app_src, steps) ==
    [status |-> 500, path |-> "error", steps |-> steps]

\* the keyword fallback of the chat handler: app_src is app.state.sources
\* (unset before startup, read as [])
keyword_fallback(query, top_k, app_src, steps) ==
    LET sources_lines == IF app_src.set THEN app_src.lines ELSE <<>>
        snippets == find_relevant_snippets(query, sources_lines, FallbackLimit(top_k))
        response_text == IF snippets # <<>>
                         THEN FoundLead \o Join(snippets, Newline)
                         ELSE NotFoundText
    IN [status |-> 200, path |-> "fallback",
        response |-> response_text, message |-> response_text,
        sources |-> [i \in 1..Len(snippets) |-> [text |-> snippets[i]]],
        context_used |-> FALSE, query |-> query,
        num_sources |-> Len(snippets),
        steps |-> Append(steps, "keyword_search")]

\* the chat handler: reply is the HTTP reply of POST /api/chat, rag the
\* outcome of the rag_system.chat call it made (ran is FALSE when it made
\* none).  rag is TRUE when the global rag_system is set.
chat(request, rag, coll, llm, app_src, profile, rag_outcome, llm_outcome) ==
    IF IsBlankQuery(request.query)
    THEN [reply |-> [status |-> 400, path |-> "rejected", steps |-> <<>>],
          rag |-> [ran |-> FALSE]]
    ELSE LET query == Strip(request.query) IN
         IF rag
         THEN LET r == rag_chat(coll, llm, query, profile, rag_outcome, llm_outcome)
              IN [reply |-> IF r.raised
                            THEN keyword_fallback(query, request.top_k, app_src, r.steps)
                            ELSE [status |-> 200, path |-> "rag",
                                  response |-> r.result.response,
                                  message |-> r.result.response,
                                  sources |-> r.result.sources,
                                  context_used |-> r.result.context_used,
                                  query |-> query,
                                  num_sources |-> r.result.num_sources,
                                  steps |-> r.steps],
                  rag |-> [ran |-> TRUE] @@ r]
         ELSE [reply |-> keyword_fallback(query, request.top_k, app_src, <<>>),
               rag |-> [ran |-> FALSE]]

\* the body of initialize_corpus once both globals are set: clear, add the
\* sample data, save the corpus file, load it into the index, count.  read
\* is what rag_system.load_corpus finds at CORPUS_PATH: the file just
\* saved, no file, a file that is not JSON, or a file it cannot read.  An
\* exception of the load ends the request with status 500.
initialize_corpus(coll, ldr, clear_outcome, read) ==
    LET cleared == clear_database(coll, clear_outcome)
        filled == add_sample_data(ldr)
        saved == [kind |-> "json", docs |-> filled.documents]
        loaded == load_corpus(cleared, IF read = "saved" THEN saved
                                       ELSE [kind |-> read])
    IN IF loaded.raised
       THEN [status |-> 500, coll |-> loaded.coll, loader |-> filled, file |-> saved]
       ELSE [status |-> 200, coll |-> loaded.coll, loader |-> filled, file |-> saved,
             documents_loaded |-> total_documents(filled)]

(***************************************************************************)
(* Inputs                                                                  *)
(***************************************************************************)
\* QBonjour is the text "Bonjour" (7 characters, as code points)
QBonjour ==
    <<66, 111, 110, 106, 111, 117, 114>>
\* QBlank is the text "  \t " (4 characters, as code points)
QBlank ==
    <<32, 32, 9, 32>>
\* QCapitale is the text "Quelle est la capitale du Burkina Faso?" (39 characters, as code points)
QCapitale ==
    <<81, 117, 101, 108, 108, 101, 32, 101, 115, 116, 32, 108, 97, 32, 99, 97, 112, 105, 116, 97, 108, 101, 32, 100, 117, 32, 66, 117, 114, 107, 105, 110, 97, 32, 70, 97, 115, 111, 63>>
\* QBanfora is the text " banfora cascade " (17 characters, as code points)
QBanfora ==
    <<32, 98, 97, 110, 102, 111, 114, 97, 32, 99, 97, 115, 99, 97, 100, 101, 32>>
\* QMerci is the text "MERCI, au revoir!" (17 characters, as code points)
QMerci ==
    <<77, 69, 82, 67, 73, 44, 32, 97, 117, 32, 114, 101, 118, 111, 105, 114, 33>>
\* QLacs is the text "Les lacs, SALUT!" (16 characters, as code points)
QLacs ==
    <<76, 101, 115, 32, 108, 97, 99, 115, 44, 32, 83, 65, 76, 85, 84, 33>>
\* SourcesFileText is the text "Festival FESPACO \xe0 Ouagadougou\nCascade de Banfora\r\n\n  H\xe9b..." (93 characters, as code points)
SourcesFileText ==
    <<70, 101, 115, 116, 105, 118, 97, 108, 32, 70, 69, 83, 80, 65, 67, 79, 32, 224, 32, 79, 117, 97, 103, 97, 100, 111, 117, 103, 111, 117, 10, 67, 97, 115, 99, 97, 100, 101, 32, 100, 101, 32, 66, 97, 110, 102, 111, 114, 97, 13, 10, 10, 32, 32, 72, 233, 98, 101, 114, 103, 101, 109, 101, 110, 116, 32, 224, 32, 66, 97, 110, 102, 111, 114, 97, 32, 101, 116, 32, 79, 117, 97, 103, 97, 100, 111, 117, 103, 111, 117, 32, 32, 10>>
\* LegacyText1 is the text "Ancienne fiche: le marché de Gorom-Gorom se tient chaque jeudi dans..." (111 characters, as code points)
LegacyText1 ==
    <<65, 110, 99, 105, 101, 110, 110, 101, 32, 102, 105, 99, 104, 101, 58, 32, 108, 101, 32, 109, 97, 114, 99, 104, 233, 32, 100, 101, 32, 71, 111, 114, 111, 109, 45, 71, 111, 114, 111, 109, 32, 115, 101, 32, 116, 105, 101, 110, 116, 32, 99, 104, 97, 113, 117, 101, 32, 106, 101, 117, 100, 105, 32, 100, 97, 110, 115, 32, 108, 101, 32, 83, 97, 104, 101, 108, 32, 98, 117, 114, 107, 105, 110, 97, 98, 232, 32, 101, 116, 32, 97, 116, 116, 105, 114, 101, 32, 108, 101, 115, 32, 99, 97, 114, 97, 118, 97, 110, 101, 115, 46>>
\* LegacyTitle1 is the text "Marché de Gorom-Gorom" (21 characters, as code points)
LegacyTitle1 ==
    <<77, 97, 114, 99, 104, 233, 32, 100, 101, 32, 71, 111, 114, 111, 109, 45, 71, 111, 114, 111, 109>>
\* LegacyUrl1 is the text "https://exemple.bf/gorom" (24 characters, as code points)
LegacyUrl1 ==
    <<104, 116, 116, 112, 115, 58, 47, 47, 101, 120, 101, 109, 112, 108, 101, 46, 98, 102, 47, 103, 111, 114, 111, 109>>
\* LegacyText2 is the text "Guide 2019 des pistes de Nazinga." (33 characters, as code points)
LegacyText2 ==
    <<71, 117, 105, 100, 101, 32, 50, 48, 49, 57, 32, 100, 101, 115, 32, 112, 105, 115, 116, 101, 115, 32, 100, 101, 32, 78, 97, 122, 105, 110, 103, 97, 46>>
\* LegacyId2 is the text "guide_2" (7 characters, as code points)
LegacyId2 ==
    <<103, 117, 105, 100, 101, 95, 50>>
\* CatArchive is the text "archive" (7 characters, as code points)
CatArchive ==
    <<97, 114, 99, 104, 105, 118, 101>>
\* QFespaco is the text "Le FESPACO, c'est quand?" (24 characters, as code points)
QFespaco ==
    <<76, 101, 32, 70, 69, 83, 80, 65, 67, 79, 44, 32, 99, 39, 101, 115, 116, 32, 113, 117, 97, 110, 100, 63>>
\* QTiny is the text "Où va-t-on le 11?" (17 characters, as code points)
QTiny ==
    <<79, 249, 32, 118, 97, 45, 116, 45, 111, 110, 32, 108, 101, 32, 49, 49, 63>>
\* LineCascadeUpper is the text "CASCADE DE BANFORA" (18 characters, as code points)
LineCascadeUpper ==
    <<67, 65, 83, 67, 65, 68, 69, 32, 68, 69, 32, 66, 65, 78, 70, 79, 82, 65>>
\* LineLacs is the text "Lacs de Banfora" (15 characters, as code points)
LineLacs ==
    <<76, 97, 99, 115, 32, 100, 101, 32, 66, 97, 110, 102, 111, 114, 97>>
\* LineMare is the text "Mare aux hippopotames" (21 characters, as code points)
LineMare ==
    <<77, 97, 114, 101, 32, 97, 117, 120, 32, 104, 105, 112, 112, 111, 112, 111, 116, 97, 109, 101, 115>>
\* LineFestival is the text "Festival FESPACO à Ouagadougou" (30 characters, as code points)
LineFestival ==
    <<70, 101, 115, 116, 105, 118, 97, 108, 32, 70, 69, 83, 80, 65, 67, 79, 32, 224, 32, 79, 117, 97, 103, 97, 100, 111, 117, 103, 111, 117>>
\* LineCascade is the text "Cascade de Banfora" (18 characters, as code points)
LineCascade ==
    <<67, 97, 115, 99, 97, 100, 101, 32, 100, 101, 32, 66, 97, 110, 102, 111, 114, 97>>
\* ContinuationA is the text " Ouagadougou est la capitale.\n" (30 characters, as code points)
ContinuationA ==
    <<32, 79, 117, 97, 103, 97, 100, 111, 117, 103, 111, 117, 32, 101, 115, 116, 32, 108, 97, 32, 99, 97, 112, 105, 116, 97, 108, 101, 46, 10>>

Queries == {<<>>, QBlank, QBonjour, QCapitale, QBanfora, QMerci, QLacs}

\* queries of the chat requests
ChatQueries == {<<>>, QBlank, QBonjour, QBanfora}

\* queries of the direct calls of find_relevant_snippets
SnippetQueries == Queries \cup {QFespaco, QTiny}

\* top_k of a request or of a direct call: unset, or 0..MaxTopK
TopKs == {None} \cup {Some(k) : k \in 0..MaxTopK}

\* top_k of the chat requests
ChatTopKs == {None, Some(0), Some(1), Some(2)}

Profiles == 0..MaxProfile

\* what the text-generation pipeline does with a prompt
LlmRaises == [kind |-> "raise", continuation |-> <<>>]

LlmOutcomes ==
    {LlmRaises,
     [kind |-> "text", continuation |-> ContinuationA],
     [kind |-> "text", continuation |-> <<>>]}

RagOutcomes == {"ok", "retrieval_raises", "generation_raises"}

ClearOutcomes == {"ok", "delete_fails", "create_fails"}

\* what the read of the corpus file yields: the saved list; no file
\* (FileNotFoundError); text that is not JSON (json.JSONDecodeError); or
\* another failure, which no handler of load_corpus catches (bytes that
\* are not UTF-8, a directory at the path, JSON that is not a list of
\* documents)
CorpusReads == {"saved", "missing", "malformed", "unreadable"}

\* the faults of one initialize_corpus call: at most one per call
InitFaults ==
    {<<c, "saved">> : c \in ClearOutcomes} \cup {<<"ok", r>> : r \in CorpusReads}

\* what data/sources.txt holds at startup: unreadable, or a text
SourcesFiles == {[readable |-> FALSE, text |-> <<>>],
                 [readable |-> TRUE, text |-> SourcesFileText]}

\* what the persistent index holds when the process starts: nothing, or
\* the entries of an earlier corpus
LegacyEntries ==
    << [id |-> DocIdPrefix \o ToDecimal(1), text |-> LegacyText1,
        metadata |-> [title |-> LegacyTitle1, url |-> LegacyUrl1]],
       [id |-> LegacyId2, text |-> LegacyText2,
        metadata |-> [category |-> CatArchive]] >>

PersistedIndexes == {<<>>, LegacyEntries}

\* a retrieved match made of sample document n
SampleMatch(n, similarity) ==
    [id |-> DocIdPrefix \o ToDecimal(n),
     text |-> clean_text(sample_documents[n].text),
     metadata |-> [title |-> sample_documents[n].title, url |-> <<>>,
                   category |-> sample_documents[n].category,
                   source_type |-> SourceManual],
     similarity |-> similarity]

\* context_docs of a direct call of generate_response
ContextDocLists ==
    {<<>>,
     << [id |-> LegacyId2, text |-> LegacyText2,
         metadata |-> [category |-> CatArchive], similarity |-> 45] >>,
     << SampleMatch(1, 65) >>,
     << SampleMatch(8, 100), SampleMatch(3, 30) >>}

\* line lists of a direct call of find_relevant_snippets
LineLists ==
    {<<>>,
     <<LineFestival, LineCascade>>,
     ParseSources(SourcesFileText),
     <<LineCascadeUpper, LineLacs, LineMare, LineCascade>>}

(***************************************************************************)
(* State                                                                   *)
(***************************************************************************)
VARIABLES
    rag_system,     \* the global rag_system of main.py: TRUE when set
    data_loader,    \* the global data_loader of main.py: TRUE when set
    llm_pipeline,   \* RAGSystem.llm_pipeline: TRUE when a pipeline is loaded
    collection,     \* RAGSystem.collection: [entries, alive]
    loader,         \* the DataLoader: [documents, sources]
    corpus_file,    \* data/corpus.json: [kind] or [kind, docs]
    app_sources,    \* app.state.sources: [set] or [set, lines]
    inits,          \* number of initialize_corpus calls so far
    reset_done,     \* history: the last initialize_corpus call succeeded
    op,             \* the call in progress, "idle" when there is none
    ret,            \* result of the last retrieve_documents
    gen,            \* result of the last generate_response
    snip,           \* result of the last find_relevant_snippets
    reply,          \* reply of the last HTTP handler
    ld,             \* result of the last corpus loading call
    tasks,          \* the requests in flight: [kind, pc, ...] in arrival order
    running         \* index in tasks of the handler that runs, 0 when none

vars == <<rag_system, data_loader, llm_pipeline, collection, loader, corpus_file,
          app_sources, inits, reset_done, op, ret, gen, snip, reply, ld,
          tasks, running>>

\* the requests in flight and the coroutine that holds the event loop
loop == <<tasks, running>>

\* the state of the program, as opposed to the record of the last call
program == <<rag_system, data_loader, llm_pipeline, collection, loader,
             corpus_file, app_sources>>

NoCall == [called |-> FALSE]

Called(r) == [called |-> TRUE] @@ r

\* no call in progress, nothing recorded
Idle ==
    /\ inits = 0
    /\ reset_done = FALSE
    /\ op = "idle"
    /\ ret = NoCall
    /\ gen = NoCall
    /\ snip = NoCall
    /\ reply = NoCall
    /\ ld = NoCall
    /\ tasks = <<>>
    /\ running = 0

\* the process before startup: both globals None, nothing loaded
Init ==
    /\ rag_system = FALSE
    /\ data_loader = FALSE
    /\ llm_pipeline = FALSE
    /\ collection = [entries |-> <<>>, alive |-> FALSE]
    /\ loader = [documents |-> <<>>, sources |-> {}]
    /\ corpus_file = [kind |-> "missing"]
    /\ app_sources = [set |-> FALSE]
    /\ Idle

\* startup_event: read data/sources.txt into app.state.sources
Startup ==
    /\ op = "idle"
    /\ ~app_sources.set
    /\ \E f \in SourcesFiles :
         app_sources' = [set |-> TRUE,
                         lines |-> IF f.readable THEN ParseSources(f.text) ELSE <<>>]
    /\ op' = "startup"
    /\ UNCHANGED <<rag_system, data_loader, llm_pipeline, collection, loader,
                   corpus_file, inits, reset_done, ret, gen, snip, reply>>
    /\ UNCHANGED <<ld, loop>>

\* an input the handler does not read on its path is fixed to one value
ChatInputsRead(query, profile, rag_outcome, llm_outcome) ==
    /\ (IsBlankQuery(query) \/ ~rag_system) => (profile = 0 /\ rag_outcome = "ok")
    /\ rag_outcome = "retrieval_raises" => profile = 0
    /\ (~collection.alive \/ collection.entries = <<>>) => profile = 0
    /\ ~collection.alive => rag_outcome = "ok"
    /\ (IsBlankQuery(query) \/ ~rag_system \/ rag_outcome # "ok" \/ ~llm_pipeline)
         => llm_outcome = LlmRaises

\* POST /api/chat
Chat ==
    /\ op = "idle"
    /\ app_sources.set
    /\ \E query \in ChatQueries, top_k \in ChatTopKs, profile \in Profiles,
          rag_outcome \in RagOutcomes, llm_outcome \in LlmOutcomes :
         /\ ChatInputsRead(query, profile, rag_outcome, llm_outcome)
         /\ \E request \in {[query |-> query, top_k |-> top_k]} :
            \E answer \in {chat(request, rag_system, collection, llm_pipeline,
                               app_sources, profile, rag_outcome, llm_outcome)} :
               /\ reply' = Called([request |-> request] @@ answer.reply)
               /\ ret' = IF answer.rag.ran
                         THEN Called([fails |-> rag_outcome = "retrieval_raises"]
                                     @@ answer.rag.retrieved)
                         ELSE NoCall
               /\ gen' = IF answer.rag.ran /\ ~answer.rag.raised
                         THEN Called([query |-> Strip(query),
                                      context_docs |-> answer.rag.retrieved.docs]
                                     @@ answer.rag.generated)
                         ELSE NoCall
    /\ op' = "chat"
    /\ UNCHANGED <<program, inits, reset_done, snip>>
    /\ UNCHANGED <<ld, loop>>

\* POST /api/init
InitializeCorpus ==
    /\ op = "idle"
    /\ app_sources.set
    /\ inits < MaxInits
    /\ inits' = inits + 1
    /\ op' = "initialize_corpus"
    /\ IF ~rag_system \/ ~data_loader
       THEN /\ reply' = Called([status |-> 503])
            /\ UNCHANGED <<collection, loader, corpus_file, reset_done>>
       ELSE \E fault \in InitFaults :
              \E clear_outcome \in {fault[1]}, read \in {fault[2]} :
              \E r \in {initialize_corpus(collection, loader, clear_outcome, read)} :
                 /\ collection' = r.coll
                 /\ loader' = r.loader
                 /\ corpus_file' = r.file
                 /\ reset_done' = (r.status = 200)
                 /\ reply' = Called(IF r.status = 200
                                    THEN [status |-> 200,
                                          documents_loaded |-> r.documents_loaded,
                                          clear_outcome |-> clear_outcome,
                                          read |-> read]
                                    ELSE [status |-> r.status,
                                          clear_outcome |-> clear_outcome,
                                          read |-> read])
    /\ UNCHANGED <<rag_system, data_loader, llm_pipeline, app_sources, ret, gen, snip>>
    /\ UNCHANGED <<ld, loop>>

\* GET /api/health
HealthCheck ==
    /\ op = "idle"
    /\ app_sources.set
    /\ reply' = Called([status |-> IF rag_system THEN "healthy" ELSE "initializing",
                        rag_initialized |-> rag_system])
    /\ op' = "health_check"
    /\ UNCHANGED <<program, inits, reset_done, ret, gen, snip>>
    /\ UNCHANGED <<ld, loop>>

\* the call in progress returns to its caller
Return ==
    /\ op # "idle"
    /\ op' = "idle"
    /\ ret' = NoCall
    /\ gen' = NoCall
    /\ snip' = NoCall
    /\ reply' = NoCall
    /\ UNCHANGED <<program, inits, reset_done>>
    /\ ld' = NoCall
    /\ UNCHANGED loop

Next ==
    \/ Startup
    \/ Chat
    \/ InitializeCorpus
    \/ HealthCheck
    \/ Return

\* the server as main.py runs it: startup and the HTTP handlers.  No
\* statement assigns the globals rag_system and data_loader, which stay None
Spec == Init /\ [][Next]_vars

(***************************************************************************)
(* The handlers, whatever the globals are bound to                         *)
(***************************************************************************)
\* the handlers read the module globals rag_system and data_loader: both
\* None as main.py leaves them, or bound before startup by the program
\* that imports main to RAGSystem() and DataLoader() (the collection is
\* fetched or created in the persistent index, the LLM pipeline loads or
\* not)
InitHandlers ==
    /\ rag_system \in BOOLEAN
    /\ data_loader = rag_system
    /\ IF rag_system
       THEN /\ llm_pipeline \in BOOLEAN
            /\ \E entries \in PersistedIndexes :
                  collection = [entries |-> entries, alive |-> TRUE]
       ELSE /\ llm_pipeline = FALSE
            /\ collection = [entries |-> <<>>, alive |-> FALSE]
    /\ loader = [documents |-> <<>>, sources |-> {}]
    /\ corpus_file = [kind |-> "missing"]
    /\ app_sources = [set |-> FALSE]
    /\ Idle

SpecHandlers == InitHandlers /\ [][Next]_vars

(***************************************************************************)
(* Direct calls of RAGSystem.retrieve_documents                            *)
(***************************************************************************)
\* a constructed RAGSystem whose index holds a persisted corpus, after at
\* most one initialize_corpus
InitRetrieve ==
    /\ rag_system = TRUE
    /\ data_loader = TRUE
    /\ llm_pipeline = FALSE
    /\ app_sources = [set |-> FALSE]
    /\ \E entries \in PersistedIndexes, outcome \in ClearOutcomes \cup {"none"} :
         LET fresh == [entries |-> entries, alive |-> TRUE]
             empty == [documents |-> <<>>, sources |-> {}]
             r == initialize_corpus(fresh, empty, outcome, "saved")
         IN IF outcome = "none"
            THEN /\ collection = fresh
                 /\ loader = empty
                 /\ corpus_file = [kind |-> "missing"]
            ELSE /\ collection = r.coll
                 /\ loader = r.loader
                 /\ corpus_file = r.file
    /\ Idle

\* a direct call of RAGSystem.retrieve_documents(query, top_k)
RetrieveDocuments ==
    /\ op = "idle"
    /\ rag_system
    /\ \E query \in Queries, top_k \in TopKs, profile \in Profiles, fails \in BOOLEAN :
         ret' = Called([fails |-> fails]
                        @@ retrieve_documents(collection, query, top_k, profile, fails))
    /\ op' = "retrieve_documents"
    /\ UNCHANGED <<program, inits, reset_done, gen, snip, reply>>
    /\ UNCHANGED <<ld, loop>>

NextRetrieve == RetrieveDocuments \/ Return

SpecRetrieve == InitRetrieve /\ [][NextRetrieve]_vars

(***************************************************************************)
(* Direct calls of RAGSystem.generate_response                             *)
(***************************************************************************)
\* a constructed RAGSystem, with or without a loaded LLM pipeline
InitGenerate ==
    /\ rag_system = TRUE
    /\ data_loader = TRUE
    /\ llm_pipeline \in BOOLEAN
    /\ collection = [entries |-> <<>>, alive |-> TRUE]
    /\ loader = [documents |-> <<>>, sources |-> {}]
    /\ corpus_file = [kind |-> "missing"]
    /\ app_sources = [set |-> FALSE]
    /\ Idle

\* a direct call of RAGSystem.generate_response(query, context_docs)
GenerateResponse ==
    /\ op = "idle"
    /\ rag_system
    /\ \E query \in Queries, context_docs \in ContextDocLists,
          llm_outcome \in LlmOutcomes :
         /\ ~llm_pipeline => llm_outcome = LlmRaises
         /\ gen' = Called([query |-> query, context_docs |-> context_docs]
                          @@ generate_response(query, context_docs, llm_pipeline,
                                               llm_outcome))
    /\ op' = "generate_response"
    /\ UNCHANGED <<program, inits, reset_done, ret, snip, reply>>
    /\ UNCHANGED <<ld, loop>>

NextGenerate == GenerateResponse \/ Return

SpecGenerate == InitGenerate /\ [][NextGenerate]_vars

(***************************************************************************)
(* Direct calls of find_relevant_snippets                                  *)
(***************************************************************************)
\* a direct call of find_relevant_snippets(query, sources, max_results)
FindRelevantSnippets ==
    /\ op = "idle"
    /\ \E query \in SnippetQueries, lines \in LineLists, max_results \in 0..MaxResults :
         snip' = Called([query |-> query, sources |-> lines,
                         max_results |-> max_results,
                         results |-> find_relevant_snippets(query, lines, max_results)])
    /\ op' = "find_relevant_snippets"
    /\ UNCHANGED <<program, inits, reset_done, ret, gen, reply>>
    /\ UNCHANGED <<ld, loop>>

NextSnippets == FindRelevantSnippets \/ Return

SpecSnippets == Init /\ [][NextSnippets]_vars


(***************************************************************************)
(* Direct calls of the corpus loading operations                           *)
(***************************************************************************)
\* texts of the add_document calls, around the admission length
DocTexts ==
    {
     \* 49 characters: Les pics de Sindou dominent la plaine de Léraba !
     <<76, 101, 115, 32, 112, 105, 99, 115, 32, 100, 101, 32, 83, 105, 110,
     100, 111, 117, 32, 100, 111, 109, 105, 110, 101, 110, 116, 32, 108,
     97, 32, 112, 108, 97, 105, 110, 101, 32, 100, 101, 32, 76, 233, 114,
     97, 98, 97, 32, 33>>,
     \* 50 characters: Les pics de Sindou dominent la plaine de la Léraba
     <<76, 101, 115, 32, 112, 105, 99, 115, 32, 100, 101, 32, 83, 105, 110,
     100, 111, 117, 32, 100, 111, 109, 105, 110, 101, 110, 116, 32, 108,
     97, 32, 112, 108, 97, 105, 110, 101, 32, 100, 101, 32, 108, 97, 32,
     76, 233, 114, 97, 98, 97>>,
     \* 67 characters, 39 once cleaned:   <p>Les dômes de Fabédougou</p>\n\n   <b>près de Banfora</b>      \t 
     <<32, 32, 60, 112, 62, 76, 101, 115, 32, 100, 244, 109, 101, 115, 32,
     100, 101, 32, 70, 97, 98, 233, 100, 111, 117, 103, 111, 117, 60, 47,
     112, 62, 10, 10, 32, 32, 32, 60, 98, 62, 112, 114, 232, 115, 32, 100,
     101, 32, 66, 97, 110, 102, 111, 114, 97, 60, 47, 98, 62, 32, 32, 32,
     32, 32, 32, 9, 32>>
    }

\* what data/corpus.json holds before the first call: nothing, text that
\* is not JSON, bytes that are not UTF-8, an empty list, or a corpus saved
\* by an earlier run from which the first entry was removed by hand
CorpusFiles ==
    {[kind |-> "missing"], [kind |-> "malformed"], [kind |-> "unreadable"],
     [kind |-> "json", docs |-> <<>>],
     [kind |-> "json",
      docs |-> SubSeq(add_sample_data([documents |-> <<>>, sources |-> {}]).documents,
                      2, 3)]}

\* a constructed DataLoader and RAGSystem with an empty index
InitLoader ==
    /\ rag_system = TRUE
    /\ data_loader = TRUE
    /\ llm_pipeline = FALSE
    /\ collection = [entries |-> <<>>, alive |-> TRUE]
    /\ loader = [documents |-> <<>>, sources |-> {}]
    /\ corpus_file \in CorpusFiles
    /\ app_sources = [set |-> FALSE]
    /\ Idle

\* a direct call of DataLoader.add_document
AddDocument ==
    /\ op = "idle"
    /\ Len(loader.documents) < MaxDocuments
    /\ \E text \in DocTexts, url \in {<<>>, LegacyUrl1} :
         /\ (url = <<>>) = (Len(text) = MinDocLen)
         /\ loader' = add_document(loader, text, LegacyTitle1, url,
                                   CatTourisme, SourceManual)
         /\ ld' = Called([text |-> text, url |-> url])
    /\ op' = "add_document"
    /\ UNCHANGED <<rag_system, data_loader, llm_pipeline, collection, corpus_file,
                   app_sources, inits, reset_done, ret, gen, snip, reply, loop>>

\* what the web gives for the url of a fetch_web_content call: a request
\* error, a page with a long text and a title tag, a page with a short
\* text and no title tag
WebPages ==
    {[ok |-> FALSE],
     [ok |-> TRUE, text |-> LegacyText1, title_tag |-> Some(LegacyTitle1)],
     [ok |-> TRUE, text |-> LegacyText2, title_tag |-> None]}

\* a direct call of DataLoader.fetch_web_content
FetchWebContent ==
    /\ op = "idle"
    /\ Len(loader.documents) < MaxDocuments
    /\ Cardinality({i \in 1..Len(loader.documents) :
                      loader.documents[i].metadata.source_type = SourceWeb})
         < MaxFetched
    /\ \E page \in WebPages, title \in {<<>>, LegacyTitle1} :
         /\ ~page.ok => title # <<>>
         /\ (page.ok /\ page.title_tag = None) => title = <<>>
         /\ \E r \in {fetch_web_content(loader, LegacyUrl1, title, page)} :
              /\ loader' = r.loader
              /\ ld' = Called([text |-> IF page.ok THEN page.text ELSE <<>>,
                               url |-> LegacyUrl1, returned |-> r.returned])
    /\ op' = "fetch_web_content"
    /\ UNCHANGED <<rag_system, data_loader, llm_pipeline, collection, corpus_file,
                   app_sources, inits, reset_done, ret, gen, snip, reply, loop>>

\* a direct call of DataLoader.add_sample_data
AddSampleData ==
    /\ op = "idle"
    /\ Len(loader.documents) + Len(sample_documents) <= MaxDocuments
    /\ loader' = add_sample_data(loader)
    /\ ld' = Called([added |-> Len(sample_documents)])
    /\ op' = "add_sample_data"
    /\ UNCHANGED <<rag_system, data_loader, llm_pipeline, collection, corpus_file,
                   app_sources, inits, reset_done, ret, gen, snip, reply, loop>>

\* a direct call of DataLoader.load_corpus
LoaderLoadCorpus ==
    /\ op = "idle"
    /\ \E r \in {loader_load_corpus(loader, corpus_file)} :
         /\ loader' = r.loader
         /\ ld' = Called([file |-> corpus_file.kind, raised |-> r.raised,
                          loaded |-> IF r.raised THEN 0 ELSE Len(r.returned)])
    /\ op' = "DataLoader.load_corpus"
    /\ UNCHANGED <<rag_system, data_loader, llm_pipeline, collection, corpus_file,
                   app_sources, inits, reset_done, ret, gen, snip, reply, loop>>

\* a direct call of DataLoader.save_corpus
SaveCorpus ==
    /\ op = "idle"
    /\ corpus_file' = save_corpus(loader)
    /\ ld' = Called([saved |-> Len(loader.documents)])
    /\ op' = "save_corpus"
    /\ UNCHANGED <<rag_system, data_loader, llm_pipeline, collection, loader,
                   app_sources, inits, reset_done, ret, gen, snip, reply, loop>>

\* a direct call of RAGSystem.load_corpus, on the empty index that
\* clear_database leaves
RagLoadCorpus ==
    /\ op = "idle"
    /\ collection.entries = <<>>
    /\ \E r \in {load_corpus(collection, corpus_file)} :
         /\ collection' = r.coll
         /\ ld' = Called([file |-> corpus_file.kind, raised |-> r.raised,
                          loaded |-> Len(r.coll.entries) - Len(collection.entries)])
    /\ op' = "RAGSystem.load_corpus"
    /\ UNCHANGED <<rag_system, data_loader, llm_pipeline, loader, corpus_file,
                   app_sources, inits, reset_done, ret, gen, snip, reply, loop>>

NextLoader ==
    \/ AddDocument
    \/ FetchWebContent
    \/ AddSampleData
    \/ LoaderLoadCorpus
    \/ SaveCorpus
    \/ RagLoadCorpus
    \/ Return

SpecLoader == InitLoader /\ [][NextLoader]_vars

(***************************************************************************)
(* Requests in flight on the event loop                                    *)
(***************************************************************************)
\* a handler that gives the loop back after every statement, as a
\* handler run on a thread pool would
YieldsAtEveryStep(pc) == pc \in {"cleared", "sampled", "saved", "done"}

\* Whether a handler gives the event loop back after the step that leads
\* to pc.  initialize_corpus and chat are coroutines without any await:
\* once dispatched, a handler keeps the loop until it returns.
Yields(pc) == pc = "done"

\* an initialize_corpus request between its clear step and the end of its
\* load step
InWindow(task) == task.kind = "init" /\ task.pc \in {"cleared", "sampled", "saved"}

\* the server after startup_event: the globals as main.py leaves them
\* (both None, no collection), or bound by the importing program to
\* RAGSystem() and DataLoader()
InitLoop ==
    /\ rag_system \in BOOLEAN
    /\ data_loader = rag_system
    /\ IF rag_system
       THEN /\ llm_pipeline \in BOOLEAN
            /\ \E entries \in PersistedIndexes :
                  collection = [entries |-> entries, alive |-> TRUE]
       ELSE /\ llm_pipeline = FALSE
            /\ collection = [entries |-> <<>>, alive |-> FALSE]
    /\ loader = [documents |-> <<>>, sources |-> {}]
    /\ corpus_file = [kind |-> "missing"]
    /\ app_sources = [set |-> TRUE, lines |-> ParseSources(SourcesFileText)]
    /\ Idle

\* a request arrives: POST /api/init, or POST /api/chat
Accept ==
    /\ Len(tasks) < MaxTasks
    /\ \/ \E fault \in InitFaults :
            tasks' = Append(tasks, [kind |-> "init", pc |-> "pending",
                                    fault |-> fault])
       \/ \E query \in {QBlank, QBanfora} :
            tasks' = Append(tasks, [kind |-> "chat", pc |-> "pending",
                                    query |-> query])
    /\ UNCHANGED <<program, inits, reset_done, op, ret, gen, snip, reply, ld, running>>

\* the event loop starts the handler of a pending request when no handler
\* holds the loop
Dispatch ==
    /\ running = 0
    /\ \E t \in 1..Len(tasks) :
         /\ tasks[t].pc = "pending"
         /\ running' = t
         /\ tasks' = [tasks EXCEPT ![t].pc = "entered"]
    /\ UNCHANGED <<program, inits, reset_done, op, ret, gen, snip, reply, ld>>

\* the tasks after task t moved to pc, with the fields of extra
Moved(t, pc, extra) == [tasks EXCEPT ![t] = extra @@ [@ EXCEPT !.pc = pc]]

\* one statement of the initialize_corpus handler: the test of the
\* globals (status 503 when one is unset) and clear_database,
\* add_sample_data, save_corpus, then load_corpus and the reply: the count
\* of get_statistics with status 200, or status 500 alone when load_corpus
\* raised
InitializeCorpusStep ==
    \E t \in 1..Len(tasks) :
       /\ tasks[t].kind = "init"
       /\ running \in {0, t}
       /\ \/ /\ tasks[t].pc = "entered"
             /\ inits' = inits + 1
             /\ IF ~rag_system \/ ~data_loader
                THEN /\ tasks' = Moved(t, "done", [status |-> 503])
                     /\ UNCHANGED collection
                ELSE /\ collection' = clear_database(collection, tasks[t].fault[1])
                     /\ tasks' = Moved(t, "cleared", <<>>)
             /\ UNCHANGED <<loader, corpus_file, reset_done>>
          \/ /\ tasks[t].pc = "cleared"
             /\ loader' = add_sample_data(loader)
             /\ tasks' = Moved(t, "sampled", <<>>)
             /\ UNCHANGED <<collection, corpus_file, inits, reset_done>>
          \/ /\ tasks[t].pc = "sampled"
             /\ corpus_file' = save_corpus(loader)
             /\ tasks' = Moved(t, "saved", <<>>)
             /\ UNCHANGED <<collection, loader, inits, reset_done>>
          \/ /\ tasks[t].pc = "saved"
             /\ \E r \in {load_corpus(collection,
                                      IF tasks[t].fault[2] = "saved" THEN corpus_file
                                      ELSE [kind |-> tasks[t].fault[2]])} :
                  /\ collection' = r.coll
                  /\ reset_done' = ~r.raised
                  /\ tasks' = Moved(t, "done",
                                    IF r.raised THEN [status |-> 500]
                                    ELSE [status |-> 200,
                                          documents_loaded |->
                                              total_documents(loader)])
             /\ UNCHANGED <<loader, corpus_file, inits>>
       /\ running' = IF Yields(tasks'[t].pc) THEN 0 ELSE t
       /\ UNCHANGED <<rag_system, data_loader, llm_pipeline, app_sources,
                      op, ret, gen, snip, reply, ld>>

\* the chat handler, from its first statement to its reply, with an
\* encoder of geometry 0
ChatStep ==
    \E t \in 1..Len(tasks), top_k \in ChatTopKs, profile \in {0},
       rag_outcome \in RagOutcomes, llm_outcome \in LlmOutcomes :
       /\ tasks[t].kind = "chat"
       /\ tasks[t].pc = "entered"
       /\ running \in {0, t}
       /\ ChatInputsRead(tasks[t].query, profile, rag_outcome, llm_outcome)
       \* top_k is read on the keyword fallback path only
       /\ (IsBlankQuery(tasks[t].query)
             \/ (rag_system /\ collection.alive /\ rag_outcome = "ok"))
            => top_k = None
       /\ \E answer \in {chat([query |-> tasks[t].query, top_k |-> top_k],
                              rag_system, collection, llm_pipeline, app_sources,
                              profile, rag_outcome, llm_outcome)} :
            tasks' = Moved(t, "done",
                           [status |-> answer.reply.status,
                            path |-> answer.reply.path])
       /\ running' = IF Yields(tasks'[t].pc) THEN 0 ELSE t
       /\ UNCHANGED <<program, inits, reset_done, op, ret, gen, snip, reply, ld>>

NextLoop ==
    \/ Accept
    \/ Dispatch
    \/ InitializeCorpusStep
    \/ ChatStep

SpecLoop == InitLoop /\ [][NextLoop]_vars

(***************************************************************************)
(* Properties                                                              *)
(***************************************************************************)

\* C1: every match returned by retrieve_documents has a similarity
\* (1 - distance) of at least similarity_threshold, and no raw result of
\* the index below the threshold is in the output, whatever the index
\* content, the query and top_k.
ThresholdFilterCorrectness ==
    (ret.called /\ ~ret.raised) =>
        /\ \A i \in 1..Len(ret.docs) :
             ret.docs[i].similarity >= SimilarityThreshold
        /\ \A i \in 1..Len(ret.raw.ids[1]) :
             One - ret.raw.distances[1][i] < SimilarityThreshold =>
                \A j \in 1..Len(ret.docs) : ret.docs[j].id # ret.raw.ids[1][i]

\* a retrieval that kept some raw results and dropped one below the threshold
ThresholdFilterWitness ==
    /\ ret.called /\ ~ret.raised
    /\ ret.docs # <<>>
    /\ \E i \in 1..Len(ret.raw.ids[1]) :
         One - ret.raw.distances[1][i] < SimilarityThreshold

\* C2: with empty context_docs, generate_response returns context_used =
\* false and a response that is one of the four fixed trigger responses or
\* the fixed "no information" message, with or without a loaded LLM; the
\* response never comes from the LLM tier or the template tier.
FallbackPurity ==
    (gen.called /\ gen.context_docs = <<>>) =>
        /\ gen.context_used = FALSE
        /\ gen.response \in {RespBonjour, RespSalut, RespMerci, RespAuRevoir,
                             NoInfoResponse}
        /\ gen.tier = "fallback"

\* C3: when the LLM tier raises, generate_response returns the response
\* that the template tier alone (no LLM loaded) returns for the same query
\* and context_docs, with the same context_used.
TierFallthrough ==
    (gen.called /\ gen.llm_raised) =>
        LET alone == generate_response(gen.query, gen.context_docs, FALSE, LlmRaises)
        IN /\ gen.response = alone.response
           /\ gen.context_used = alone.context_used

\* the LLM raised on a call with retrieved context, and the template answered
TierFallthroughWitness ==
    /\ gen.called /\ gen.llm_raised
    /\ Len(gen.context_docs) = 2
    /\ gen.tier = "template"

\* C4: after clear_database followed by load_corpus(corpus), also when the
\* clear step failed internally, a retrieval returns only documents of the
\* loaded corpus, never one present only in the previous index content.
ResetAtomicity ==
    (reset_done /\ ret.called /\ ~ret.raised) =>
        \A i \in 1..Len(ret.docs) :
           \E j \in 1..Len(corpus_file.docs) :
              /\ corpus_file.docs[j].id = ret.docs[i].id
              /\ corpus_file.docs[j].text = ret.docs[i].text

\* C5: a chat request whose query is empty or only whitespace is answered
\* with status 400 before any retrieval, generation or keyword search step
\* runs, and the vector index, the document store and the keyword source
\* list are left unchanged.
BlankQueryRejected ==
    [][(op' = "chat" /\ \A i \in 1..Len(reply'.request.query) :
                           IsSpace(reply'.request.query[i]))
         => /\ reply'.status = 400
            /\ reply'.steps = <<>>
            /\ ~ret'.called /\ ~gen'.called /\ ~snip'.called
            /\ UNCHANGED program]_vars

\* a whitespace-only query was rejected by a server whose index holds entries
BlankQueryWitness ==
    /\ op = "chat" /\ reply.called
    /\ reply.request.query = QBlank
    /\ reply.status = 400
    /\ rag_system /\ collection.entries # <<>>

\* C6: every non-blank query gets a chat result (status 200), never an
\* error: when rag_system.chat raises, in the retrieval or in the
\* generation, the answer is the keyword search over the source lines with
\* context_used = false.
WellFormedQueryAnswered ==
    (op = "chat" /\ reply.called
       /\ \E i \in 1..Len(reply.request.query) : ~IsSpace(reply.request.query[i])) =>
        /\ reply.status = 200
        /\ (ret.called /\ ~gen.called) =>
              LET found == find_relevant_snippets(
                               Strip(reply.request.query), app_sources.lines,
                               IF reply.request.top_k \in {None, Some(0)}
                               THEN FallbackMaxResults
                               ELSE reply.request.top_k[1])
              IN /\ reply.path = "fallback"
                 /\ reply.context_used = FALSE
                 /\ Len(reply.sources) = Len(found)
                 /\ \A i \in 1..Len(found) : reply.sources[i].text = found[i]

\* rag_system.chat raised after the retrieval and the keyword search answered
WellFormedQueryWitness ==
    /\ op = "chat" /\ reply.called
    /\ ret.called /\ ~ret.raised /\ ~gen.called
    /\ reply.status = 200
    /\ reply.num_sources > 0

\* C7: for every query, line list and max_results >= 0,
\* find_relevant_snippets returns at most max_results lines, and they are
\* the first matching lines in stored order, a line matching when its
\* lowercase form contains a lowercase query word of length >= 3.
SnippetsAreFirstMatches ==
    snip.called =>
        LET words == QueryWords(snip.query, 1)
            matching == SelectSeq(snip.sources, LAMBDA l : LineMatches(l, words))
            n == IF Len(matching) < snip.max_results
                 THEN Len(matching) ELSE snip.max_results
        IN /\ Len(snip.results) <= snip.max_results
           /\ snip.results = SubSeq(matching, 1, n)

\* C8: for every k >= 0, retrieve_documents(query, top_k=k) on a reachable
\* index returns at most k matches, and an empty list, not an error, when
\* k = 0 or when the index is empty.
TopKLengthBound ==
    (ret.called /\ ret.top_k # None /\ ~ret.fails /\ collection.alive) =>
        /\ ~ret.raised
        /\ Len(ret.docs) <= ret.top_k[1]
        /\ (ret.top_k[1] = 0 \/ collection.entries = <<>>) => ret.docs = <<>>

\* C9: the output of retrieve_documents is a subsequence of the raw list
\* of the index (the filter never reorders), so with raw results in
\* ascending distance order the matches are in non-increasing similarity
\* order.
RetrievalKeepsOrder ==
    (ret.called /\ ~ret.raised) =>
        LET raw == ret.raw.ids[1]
            Pos(j) == CHOOSE i \in 1..Len(raw) : raw[i] = ret.docs[j].id
        IN /\ \A j \in 1..Len(ret.docs) :
                \E i \in 1..Len(raw) :
                   /\ raw[i] = ret.docs[j].id
                   /\ ret.raw.documents[1][i] = ret.docs[j].text
           /\ \A j, k \in 1..Len(ret.docs) : j < k => Pos(j) < Pos(k)
           /\ \A j \in 1..(Len(ret.docs) - 1) :
                ret.docs[j].similarity >= ret.docs[j + 1].similarity

\* a retrieval that kept several raw results of different similarity and
\* dropped another
RetrievalOrderWitness ==
    /\ ret.called /\ ~ret.raised
    /\ Len(ret.docs) >= 2
    /\ Len(ret.docs) < Len(ret.raw.ids[1])
    /\ ret.docs[1].similarity > ret.docs[Len(ret.docs)].similarity

\* C10: in the result of generate_response, context_used is true iff
\* context_docs is non-empty and the LLM tier or the template tier wrote
\* the response; a response of the fallback tier has context_used = false.
ContextUsedIffContext ==
    gen.called =>
        /\ gen.context_used <=>
              (gen.context_docs # <<>> /\ gen.tier \in {"llm", "template"})
        /\ gen.tier = "fallback" => gen.context_used = FALSE

\* the LLM tier answered a call with retrieved context
ContextUsedWitness ==
    /\ gen.called
    /\ gen.context_docs # <<>>
    /\ gen.tier = "llm"
    /\ gen.context_used

\* C11: the chat operation honours the request's top_k: a request with
\* top_k = k gets a result with num_sources <= k on the RAG path and on
\* the keyword fallback path alike; the configured default applies only
\* to a request that leaves top_k unset.
ChatHonoursTopK ==
    (op = "chat" /\ reply.called /\ reply.status = 200
       /\ reply.request.top_k # None) =>
        reply.num_sources <= reply.request.top_k[1]

\* C12: in every chat result, on the RAG path and on the keyword fallback
\* path alike, sources is a sequence of records with exactly the fields
\* title, url and similarity, title defaulting to the placeholder and url
\* to the empty string when the document's metadata lacks them.
SourcesAreProjections ==
    (op = "chat" /\ reply.called /\ reply.status = 200) =>
        /\ \A i \in 1..Len(reply.sources) :
             DOMAIN reply.sources[i] = {"title", "url", "similarity"}
        /\ gen.called =>
             /\ Len(reply.sources) = Len(gen.context_docs)
             /\ \A i \in 1..Len(gen.context_docs) :
                  LET meta == gen.context_docs[i].metadata IN
                  /\ reply.sources[i].title =
                        IF "title" \in DOMAIN meta THEN meta.title
                        ELSE SourcePlaceholder
                  /\ reply.sources[i].url =
                        IF "url" \in DOMAIN meta THEN meta.url ELSE <<>>
                  /\ reply.sources[i].similarity = gen.context_docs[i].similarity

\* C14: while rag_system is unset (the encoder or the index storage failed
\* to initialize, or initialization has not happened) and the health
\* operation reports rag_initialized = false, no chat request is answered
\* with a chat result.
NoChatBeforeInitialization ==
    /\ (op = "chat" /\ reply.called /\ ~rag_system) => reply.status # 200
    /\ (op = "health_check" /\ reply.called) => reply.rag_initialized = rag_system

\* C13: when the reinitialize operation reports success, its
\* documents_loaded count is the number of documents present in the vector
\* index after the operation.
DocumentsLoadedCountsIndex ==
    (op = "initialize_corpus" /\ reply.called /\ reply.status = 200) =>
        reply.documents_loaded = Len(collection.entries)

\* C20: the reinitialize operation is idempotent: after any number of
\* successful calls the reported documents_loaded count, and the vector
\* index when the clear and load steps succeeded, are those of a single
\* call on a fresh process.
ReinitializeIdempotent ==
    (op = "initialize_corpus" /\ reply.called /\ reply.status = 200) =>
        LET once == initialize_corpus([entries |-> <<>>, alive |-> TRUE],
                                      [documents |-> <<>>, sources |-> {}],
                                      "ok", "saved")
        IN /\ reply.documents_loaded = once.documents_loaded
           /\ (reply.clear_outcome = "ok" /\ reply.read = "saved")
                => collection = once.coll

\* C15: loading a corpus file that is missing or is not valid JSON never
\* raises to the caller, with RAGSystem.load_corpus and with
\* DataLoader.load_corpus alike: the error is absorbed and the load counts
\* as zero documents.
CorpusLoadErrorsAbsorbed ==
    (ld.called /\ op \in {"DataLoader.load_corpus", "RAGSystem.load_corpus"}
       /\ ld.file \in {"missing", "malformed"}) =>
        /\ ~ld.raised
        /\ ld.loaded = 0

\* C18: after any sequence of add_document, add_sample_data, load_corpus
\* and save_corpus calls, the documents of the DataLoader have pairwise
\* distinct ids.
DocumentIdsDistinct ==
    \A i, j \in 1..Len(loader.documents) :
       i # j => loader.documents[i].id # loader.documents[j].id

\* C19: add_document admits a document only if its cleaned text has at
\* least 50 characters: every document it appends has a cleaned text of
\* 50 characters or more, and a call with a shorter cleaned text leaves
\* the document list and the source set unchanged.
AdmissionByLength ==
    [][op' \in {"add_document", "fetch_web_content"} =>
         /\ Len(clean_text(ld'.text)) < 50 => UNCHANGED loader
         /\ \A i \in (Len(loader.documents) + 1)..Len(loader'.documents) :
              Len(loader'.documents[i].text) >= 50]_vars

\* a text of more than 50 characters whose cleaned form is shorter was
\* offered with a url to a DataLoader that holds documents
AdmissionWitness ==
    /\ op = "add_document" /\ ld.called
    /\ Len(ld.text) > 50
    /\ Len(clean_text(ld.text)) < 50
    /\ ld.url # <<>>
    /\ loader.documents # <<>>

\* C16: corpus writes are mutually exclusive: with two reinitialize
\* requests in flight at once, the clear and load steps of one never
\* interleave with those of the other (at most one is between its clear
\* step and the end of its load step, and no other has begun meanwhile).
ReinitializeExclusive ==
    \A a, b \in 1..Len(tasks) :
       (a # b /\ InWindow(tasks[a]) /\ tasks[b].kind = "init") =>
           tasks[b].pc \in {"pending", "done"}

\* a reinitialize request is between its clear and its load while a second
\* one is in flight
ReinitializeExclusiveWitness ==
    \E a, b \in 1..Len(tasks) :
       /\ a # b
       /\ InWindow(tasks[a])
       /\ tasks[b].kind = "init" /\ tasks[b].pc = "pending"
====
